---- MODULE Spec2Model ----
(***************************************************************************)
(* A model of the BiDi-over-CDP mapper: the per-request network state      *)
(* machine (NetworkRequest / NetworkManager), the subscription manager     *)
(* and the browsing context storage, the outgoing event queue, the shared  *)
(* id parser and the WebSocket front end (the commands of a connection,    *)
(* and the connections of a session).  Each subsystem has its own          *)
(* specification (SpecNet, SpecFetch, SpecSub, SpecCtx, SpecQueue,         *)
(* SpecQueueFair, SpecSharedId, SpecWs, SpecSession, SpecTarget,           *)
(* SpecPreload, SpecAttach, SpecChannel, SpecChannelFair, SpecOverride,    *)
(* SpecCookie, SpecPhase); the variables of the other subsystems stay at   *)
(* their initial values.                                                   *)
(***************************************************************************)
EXTENDS Integers, Sequences, FiniteSets, TLC

VARIABLES
    requests,       \* NetworkStorage: the NetworkRequest stored under the modelled request id ({} or {r})
    emitted,        \* BiDi network events registered, in order, as <<instance, event>>: those of
                    \* the stored instance ("live") and of the instance that left the storage
                    \* in the last step ("gone"); older instances can emit nothing any more
    intercepts,     \* phases for which an intercept matches the request and the target is subscribed
    steps,          \* CDP events, CDP replies and intercept changes handled so far
    isBlocked,      \* the isBlocked field of each event of emitted, in the same order
    command,        \* the client's interception command on the request that is running or
                    \* ended in the last step: its name, where its asynchronous body stands,
                    \* the Fetch commands it sent, and the instance it was called on ("stored",
                    \* or that instance's interceptPhase once it left the storage)
    inputs,         \* the inputs handled for the request id since the start, in order, as long
                    \* as they follow one of TrackedInputs; <<Untracked>> once they left them
    futures,        \* outgoing-message promises in the order of emitOutgoingMessage: their state
    slots,          \* ProcessingQueue: the promises added and not yet processed, head first
    settled,        \* the promises in the order in which they settled
    delivered,      \* the promises whose message the queue handed to the transport, in order
    skipped,        \* the promises the queue logged and skipped
    wsConnection,   \* the WebSocket connection: "none", "open" or "closed"
    wsSession,      \* the connection's session variable: "undefined" or "defined"
    wsBrowser,      \* session.browserInstancePromise
    wsCommands,     \* the frames received on the connection, each with its handler's position
    contexts,       \* BrowsingContextStorage: context id -> parent id (NoParent for a top-level one)
    subscriptions,  \* SubscriptionManager.#subscriptions
    nextSubscriptionId, \* the next fresh subscription id (uuidv4)
    lastCall,       \* the last subscribe/unsubscribe call: its name and how it ended
    pair,           \* the subscribe call just made (arguments and store before it), and whether
                    \* the unsubscribe call with the same arguments followed it
    sharedIdCall,   \* SharedIdParser: the arguments of a getSharedId call, the shared id it
                    \* returned and what parseSharedId returned for that shared id
    browserInstancePromise, \* session.browserInstancePromise of the session made by POST
                    \* /session: 0 (undefined) or k, the promise stored for its k-th connection
    sessionConnections, \* the WebSocket connections accepted for that session, in order
    promiseReactions,   \* the functions suspended at an await of a stored promise, in order
    closedInstances,    \* the browser instances (by connection) that were closed
    cdpTargets,     \* the CDP targets of the top-level contexts: where #unblock stands and
                    \* the commands it issued
    preloadScripts, \* PreloadScriptStorage: BiDi script id -> PreloadScript
    nextScriptId,   \* the next fresh preload script id (uuidv4)
    installing,     \* the <<script, target>> whose Page.addScriptToEvaluateOnNewDocument is in flight
    scriptCall,      \* the last addPreloadScript/removePreloadScript command and where it stands
    knownContexts,  \* Context._contexts: the ids of the known contexts (one per attached target)
    creating,       \* per target, the attachedToTarget handlers awaiting TargetContext.create
    contextsCreated,      \* per target, the contexts created in its current attachment
    contextCreatedEvents, \* per target, the contextCreated events sent in its current attachment
    targetEvents,    \* the Target.attachedToTarget and detachedFromTarget events handled
    realm,          \* the execution context a channel was created in: "alive" or "destroyed"
    pageQueue,      \* the in-page queue of the channel (messages sent and not yet polled)
    getMessageWaiting, \* a getMessage call is waiting in the page for the queue to fill
    cdpInbox,       \* the CDP replies and events sent by the browser, not yet handled
    channelListener,   \* #initChannelListener: "idle" (not started), "awaiting" or "ended"
    callsIssued,    \* the Runtime.callFunctionOn(getMessage) calls the listener has issued
    scriptMessages, \* the data of the script.message events registered, in order
    realmDestroyedSeen, \* the mapper has handled Runtime.executionContextDestroyed of the realm
    messagesSent,    \* the sendMessage calls made by the page
    overrideCall,   \* #getOverrideHeader: the arguments of a call and what it returned
    cookieCall,      \* a cookie conversion: its direction, implementation, cookie and result
    phaseRequest,   \* a NetworkRequest whose phase signal is followed
    waitNextPhase,  \* its waitNextPhase field: the number of the current Deferred (0: no request)
    resolvedPhases, \* the Deferreds that were resolved
    phaseWaiters,   \* per caller, the Deferred it read from waitNextPhase and whether it went on
    phaseEvents     \* the events the request registered with the event manager, in order

netVars == <<requests, emitted, intercepts, steps, isBlocked, command, inputs>>
queueVars == <<futures, slots, settled, delivered, skipped>>
wsVars == <<wsConnection, wsSession, wsBrowser, wsCommands>>
subVars == <<contexts, subscriptions, nextSubscriptionId, lastCall, pair>>
scriptVars == <<sharedIdCall>>
sessionVars == <<browserInstancePromise, sessionConnections, promiseReactions, closedInstances>>
targetVars == <<cdpTargets, preloadScripts, nextScriptId, installing, scriptCall>>
attachVars == <<knownContexts, creating, contextsCreated, contextCreatedEvents, targetEvents>>
channelVars == <<realm, pageQueue, getMessageWaiting, cdpInbox, channelListener, callsIssued, scriptMessages, realmDestroyedSeen, messagesSent>>
conversionVars == <<overrideCall, cookieCall>>
phaseVars == <<phaseRequest, waitNextPhase, resolvedPhases, phaseWaiters, phaseEvents>>
vars == <<netVars, queueVars, wsVars, subVars, scriptVars, sessionVars, targetVars, attachVars, channelVars, conversionVars, phaseVars>>

(***************************************************************************)
(* Bounds of the model.                                                    *)
(***************************************************************************)
MaxSteps == 6   \* CDP events, CDP replies and intercept changes handled for the request id
MaxCalls == 1   \* interception commands the client calls on the request id

(***************************************************************************)
(* NetworkRequest                                                          *)
(***************************************************************************)
NetworkEvents ==
    {"authRequired", "beforeRequestSent", "fetchError", "responseCompleted", "responseStarted"}

InterceptPhases == {"beforeRequestSent", "responseStarted", "authRequired"}

\* Classes of request URL the code distinguishes: data: URLs, */favicon.ico, anything else.
UrlKinds == {"plain", "favicon", "data"}

\* new NetworkRequest(id, ..., redirectCount): every CDP payload unset, nothing emitted.
NewRequest(redirectCount, urlKind) ==
    [redirectCount |-> redirectCount, urlKind |-> urlKind,
     reqInfo |-> FALSE, reqExtraInfo |-> FALSE, reqPaused |-> FALSE, reqAuth |-> FALSE,
     respInfo |-> FALSE, respHasExtraInfo |-> FALSE, respFromDiskCache |-> FALSE,
     respExtraInfo |-> FALSE, respPaused |-> FALSE,
     servedFromCache |-> FALSE,
     fetchId |-> FALSE, interceptPhase |-> "none",
     emittedEvents |-> [e \in NetworkEvents |-> FALSE],
     inflight |-> 0]

\* get url(): the first URL among the payloads received, 'UNKNOWN' when there is none.
urlKnown(r) == r.respInfo \/ r.respPaused \/ r.reqAuth \/ r.reqInfo \/ r.reqPaused

isDataUrl(r) == urlKnown(r) /\ r.urlKind = "data"

isRedirecting(r) == r.reqInfo

\* #isIgnoredEvent: request.paused?.url ?? request.info?.url ends with /favicon.ico
isIgnoredEvent(r) == (r.reqPaused \/ r.reqInfo) /\ r.urlKind = "favicon"

\* #isBlockedInPhase / #interceptsInPhase, as seen by the request in a given environment
isBlockedInPhase(blocked, phase) == phase \in blocked

\* #getResponseEventParams drops response.extraInfo of a response served from the disk cache.
getResponseEventParams(r) ==
    IF r.respInfo /\ r.respFromDiskCache THEN [r EXCEPT !.respExtraInfo = FALSE] ELSE r

\* The effect of building the event (getEvent()) on the request.
getEvent(r, event) ==
    IF event \in {"responseStarted", "responseCompleted", "authRequired"}
    THEN getResponseEventParams(r)
    ELSE r

\* A mutation of emitEvent: the one-shot emittedEvents flag is not consulted.
emitEventNoFlag(n, event) ==
    LET r == getEvent(n.req, event) IN
    IF isIgnoredEvent(r)
    THEN [n EXCEPT !.req = r]
    ELSE [n EXCEPT !.req = [r EXCEPT !.emittedEvents[event] = TRUE],
                   !.log = Append(@, <<"live", event>>)]

\* #emitEvent on n = [req, stored, log]: the request, whether the storage holds it, the events.
emitEvent(n, event) ==
    LET r == getEvent(n.req, event) IN
    IF isIgnoredEvent(r) \/ (r.emittedEvents[event] /\ event # "authRequired")
    THEN [n EXCEPT !.req = r]
    ELSE [n EXCEPT !.req = [r EXCEPT !.emittedEvents[event] = TRUE],
                   !.log = Append(@, <<"live", event>>)]

\* networkStorage.deleteRequest(this.id)
deleteRequest(n) == [n EXCEPT !.stored = FALSE]

\* A mutation of emitEventsIfReady: beforeRequestSent does not wait for the request-stage
\* Fetch.requestPaused of a request whose interception is expected.
emitEventsIfReadyNoRequestPause(n, blocked, wasRedirected, hasFailed) ==
    LET r == n.req
        requestExtraInfoCompleted ==
            wasRedirected \/ hasFailed \/ isDataUrl(r) \/ r.reqExtraInfo
            \/ r.servedFromCache \/ (r.respInfo /\ ~r.respHasExtraInfo)
        noInterceptionExpected == isDataUrl(r) \/ r.servedFromCache
        responseExtraInfoCompleted ==
            r.respExtraInfo \/ r.servedFromCache \/ (r.respInfo /\ ~r.respHasExtraInfo)
        responseInterceptionExpected ==
            ~noInterceptionExpected /\ isBlockedInPhase(blocked, "responseStarted")
        responseInterceptionCompleted ==
            ~responseInterceptionExpected \/ (responseInterceptionExpected /\ r.respPaused)
        n1 == IF r.reqInfo /\ requestExtraInfoCompleted
              THEN emitEvent(n, "beforeRequestSent")
              ELSE n
        n2 == IF r.respInfo \/ (responseInterceptionExpected /\ r.respPaused)
              THEN emitEvent(n1, "responseStarted")
              ELSE n1
    IN  IF r.respInfo /\ responseExtraInfoCompleted /\ responseInterceptionCompleted
        THEN deleteRequest(emitEvent(n2, "responseCompleted"))
        ELSE n2

\* A mutation of emitEventsIfReady: the request that emitted responseCompleted stays in
\* the storage.
emitEventsIfReadyNoDelete(n, blocked, wasRedirected, hasFailed) ==
    LET r == n.req
        requestExtraInfoCompleted ==
            wasRedirected \/ hasFailed \/ isDataUrl(r) \/ r.reqExtraInfo
            \/ r.servedFromCache \/ (r.respInfo /\ ~r.respHasExtraInfo)
        noInterceptionExpected == isDataUrl(r) \/ r.servedFromCache
        requestInterceptionExpected ==
            ~noInterceptionExpected /\ isBlockedInPhase(blocked, "beforeRequestSent")
        requestInterceptionCompleted ==
            ~requestInterceptionExpected \/ (requestInterceptionExpected /\ r.reqPaused)
        responseExtraInfoCompleted ==
            r.respExtraInfo \/ r.servedFromCache \/ (r.respInfo /\ ~r.respHasExtraInfo)
        responseInterceptionExpected ==
            ~noInterceptionExpected /\ isBlockedInPhase(blocked, "responseStarted")
        responseInterceptionCompleted ==
            ~responseInterceptionExpected \/ (responseInterceptionExpected /\ r.respPaused)
        n1 == IF r.reqInfo /\ (IF requestInterceptionExpected
                               THEN requestInterceptionCompleted
                               ELSE requestExtraInfoCompleted)
              THEN emitEvent(n, "beforeRequestSent")
              ELSE n
        n2 == IF r.respInfo \/ (responseInterceptionExpected /\ r.respPaused)
              THEN emitEvent(n1, "responseStarted")
              ELSE n1
    IN  IF r.respInfo /\ responseExtraInfoCompleted /\ responseInterceptionCompleted
        THEN emitEvent(n2, "responseCompleted")
        ELSE n2

\* #emitEventsIfReady({wasRedirected, hasFailed}); the gating predicates are evaluated
\* on entry, the three emissions follow in order.
emitEventsIfReady(n, blocked, wasRedirected, hasFailed) ==
    LET r == n.req
        requestExtraInfoCompleted ==
            wasRedirected \/ hasFailed \/ isDataUrl(r) \/ r.reqExtraInfo
            \/ r.servedFromCache \/ (r.respInfo /\ ~r.respHasExtraInfo)
        noInterceptionExpected == isDataUrl(r) \/ r.servedFromCache
        requestInterceptionExpected ==
            ~noInterceptionExpected /\ isBlockedInPhase(blocked, "beforeRequestSent")
        requestInterceptionCompleted ==
            ~requestInterceptionExpected \/ (requestInterceptionExpected /\ r.reqPaused)
        responseExtraInfoCompleted ==
            r.respExtraInfo \/ r.servedFromCache \/ (r.respInfo /\ ~r.respHasExtraInfo)
        responseInterceptionExpected ==
            ~noInterceptionExpected /\ isBlockedInPhase(blocked, "responseStarted")
        responseInterceptionCompleted ==
            ~responseInterceptionExpected \/ (responseInterceptionExpected /\ r.respPaused)
        n1 == IF r.reqInfo /\ (IF requestInterceptionExpected
                               THEN requestInterceptionCompleted
                               ELSE requestExtraInfoCompleted)
              THEN emitEvent(n, "beforeRequestSent")
              ELSE n
        n2 == IF r.respInfo \/ (responseInterceptionExpected /\ r.respPaused)
              THEN emitEvent(n1, "responseStarted")
              ELSE n1
    IN  IF r.respInfo /\ responseExtraInfoCompleted /\ responseInterceptionCompleted
        THEN deleteRequest(emitEvent(n2, "responseCompleted"))
        ELSE n2

\* handleRedirect(event): the redirect response is recorded without extra info and flushed.
handleRedirect(n, blocked, fromDiskCache) ==
    emitEventsIfReady([n EXCEPT !.req.respHasExtraInfo = FALSE,
                                !.req.respInfo = TRUE,
                                !.req.respFromDiskCache = fromDiskCache],
                      blocked, TRUE, FALSE)

onRequestWillBeSentEvent(n, blocked) ==
    emitEventsIfReady([n EXCEPT !.req.reqInfo = TRUE], blocked, FALSE, FALSE)

onRequestWillBeSentExtraInfoEvent(n, blocked) ==
    emitEventsIfReady([n EXCEPT !.req.reqExtraInfo = TRUE], blocked, FALSE, FALSE)

\* A mutation of onResponseReceivedExtraInfoEvent: the extra info is recorded, nothing is flushed.
onResponseReceivedExtraInfoEventNoFlush(n, blocked, isRedirectExtraInfo) ==
    IF isRedirectExtraInfo /\ n.req.reqInfo
    THEN n
    ELSE [n EXCEPT !.req.respExtraInfo = TRUE]

\* isRedirectExtraInfo: a 3xx status whose location header equals the request URL.
onResponseReceivedExtraInfoEvent(n, blocked, isRedirectExtraInfo) ==
    IF isRedirectExtraInfo /\ n.req.reqInfo
    THEN n
    ELSE emitEventsIfReady([n EXCEPT !.req.respExtraInfo = TRUE], blocked, FALSE, FALSE)

onResponseReceivedEvent(n, blocked, hasExtraInfo, fromDiskCache) ==
    emitEventsIfReady([n EXCEPT !.req.respHasExtraInfo = hasExtraInfo,
                                !.req.respInfo = TRUE,
                                !.req.respFromDiskCache = fromDiskCache],
                      blocked, FALSE, FALSE)

onServedFromCache(n, blocked) ==
    emitEventsIfReady([n EXCEPT !.req.servedFromCache = TRUE], blocked, FALSE, FALSE)

\* A mutation of onLoadingFailedEvent: fetchError is emitted before the flush.
onLoadingFailedEventErrorFirst(n, blocked) ==
    emitEventsIfReady(emitEvent(n, "fetchError"), blocked, FALSE, TRUE)

onLoadingFailedEvent(n, blocked) ==
    emitEvent(emitEventsIfReady(n, blocked, FALSE, TRUE), "fetchError")

\* void this.#continueRequest() / #continueResponse() / #continueWithAuth(): the Fetch
\* command is sent; interceptPhase is cleared only when its reply arrives.
sendContinue(r) == [r EXCEPT !.inflight = @ + 1]

\* A mutation of onRequestPaused: a pause that is not held is not continued either.
onRequestPausedNoContinue(n, blocked, responseStage, fetchIsNetworkId) ==
    LET phase == IF responseStage THEN "responseStarted" ELSE "beforeRequestSent"
        r0 == [n.req EXCEPT !.fetchId = TRUE,
                            !.respPaused = @ \/ responseStage,
                            !.reqPaused = @ \/ ~responseStage]
        r1 == IF isBlockedInPhase(blocked, phase)
                 /\ ~r0.emittedEvents[phase]
                 /\ ~fetchIsNetworkId
              THEN [r0 EXCEPT !.interceptPhase = phase]
              ELSE r0
    IN  emitEventsIfReady([n EXCEPT !.req = r1], blocked, FALSE, FALSE)

\* onRequestPaused(event); responseStage: the event carries responseStatusCode or
\* responseErrorReason; fetchIsNetworkId: event.requestId equals the request id.
onRequestPaused(n, blocked, responseStage, fetchIsNetworkId) ==
    LET r0 == [n.req EXCEPT !.fetchId = TRUE]
        r1 == IF responseStage
              THEN LET rp == [r0 EXCEPT !.respPaused = TRUE] IN
                   IF isBlockedInPhase(blocked, "responseStarted")
                      /\ ~rp.emittedEvents["responseStarted"]
                      /\ ~fetchIsNetworkId
                   THEN [rp EXCEPT !.interceptPhase = "responseStarted"]
                   ELSE sendContinue(rp)
              ELSE LET rp == [r0 EXCEPT !.reqPaused = TRUE] IN
                   IF isBlockedInPhase(blocked, "beforeRequestSent")
                      /\ ~rp.emittedEvents["beforeRequestSent"]
                      /\ ~fetchIsNetworkId
                   THEN [rp EXCEPT !.interceptPhase = "beforeRequestSent"]
                   ELSE sendContinue(rp)
    IN  emitEventsIfReady([n EXCEPT !.req = r1], blocked, FALSE, FALSE)

onAuthRequired(n, blocked, fetchIsNetworkId) ==
    LET r0 == [n.req EXCEPT !.fetchId = TRUE,
                            !.reqAuth = TRUE]
        r1 == IF isBlockedInPhase(blocked, "authRequired") /\ ~fetchIsNetworkId
              THEN [r0 EXCEPT !.interceptPhase = "authRequired"]
              ELSE sendContinue(r0)
    IN  emitEvent([n EXCEPT !.req = r1], "authRequired")

(***************************************************************************)
(* The interception commands of a NetworkRequest.  Each is an async        *)
(* function: the part up to its first await runs when it is called, the    *)
(* rest when the awaited CDP reply or phase signal arrives.                *)
(***************************************************************************)
InterceptionCommands ==
    {"continueRequest", "continueResponse", "continueWithAuth", "provideResponse", "failRequest"}

\* How the synchronous part of a call ended: where it stands, the error thrown, the Fetch
\* commands sent, and whether the part of continueResponse after the credentials follows.
called(pc, error, sent, thenResponse) ==
    [pc |-> pc, error |-> error, sent |-> sent, thenResponse |-> thenResponse]

\* assert(this.#fetchId, 'Network Interception not set-up.') followed by
\* await this.cdpClient.sendCommand(method, ...)
sendCommand(r, method, thenResponse) ==
    IF r.fetchId
    THEN called("awaitReply", "none", <<method>>, thenResponse)
    ELSE called("threw", "unknown error", <<>>, FALSE)

failRequest(r) == sendCommand(r, "Fetch.failRequest", FALSE)

\* continueRequest(overrides) and the #continueRequest it awaits
continueRequest(r) == sendCommand(r, "Fetch.continueRequest", FALSE)

\* continueWithAuth(authChallenge) and the #continueWithAuth it awaits
continueWithAuth(r) == sendCommand(r, "Fetch.continueWithAuth", FALSE)

\* continueResponse(overrides); credentials: overrides.credentials is given
continueResponse(r, credentials) ==
    IF r.interceptPhase = "authRequired"
    THEN sendCommand(r, "Fetch.continueWithAuth", credentials)
    ELSE IF r.interceptPhase = "responseStarted"
         THEN sendCommand(r, "Fetch.continueResponse", FALSE)
         ELSE called("returned", "none", <<>>, FALSE)

\* provideResponse(overrides); modified: overrides.body or overrides.headers is given
provideResponse(r, modified) ==
    IF ~r.fetchId
    THEN called("threw", "unknown error", <<>>, FALSE)
    ELSE IF r.interceptPhase = "authRequired"
         THEN sendCommand(r, "Fetch.continueWithAuth", FALSE)
         ELSE IF ~modified
              THEN sendCommand(r, "Fetch.continueRequest", FALSE)
              ELSE sendCommand(r, "Fetch.fulfillRequest", FALSE)

\* The call of the interception command op on r
callCommand(r, op, flag) ==
    CASE op = "continueRequest" -> continueRequest(r)
      [] op = "continueResponse" -> continueResponse(r, flag)
      [] op = "continueWithAuth" -> continueWithAuth(r)
      [] op = "provideResponse" -> provideResponse(r, flag)
      [] op = "failRequest" -> failRequest(r)

\* No interception command was called.
NoCommand ==
    [op |-> "none", pc |-> "idle", error |-> "none", sent |-> <<>>,
     thenResponse |-> FALSE, signalled |-> FALSE, target |-> "none", calls |-> 0]

(***************************************************************************)
(* NetworkManager: the CDP listeners that route events of the request id   *)
(* to its NetworkRequest, creating one when the storage holds none.        *)
(***************************************************************************)
hasRequest == requests # {}

getRequest == CHOOSE r \in requests : TRUE

\* The URL classes a handler may meet: the request's own, or any for a request it creates.
urlKindsHere == IF hasRequest THEN {getRequest.urlKind} ELSE UrlKinds

\* The events of the stored instance.
liveEvents == SelectSeq(emitted, LAMBDA e : e[1] = "live")

\* An instance that is no longer stored has its events marked.
retire(log) == [i \in DOMAIN log |-> <<"gone", log[i][2]>>]

\* #getOrCreateNetworkRequest(id, redirectCount), as the handler's working state
getOrCreateNetworkRequest(redirectCount, urlKind) ==
    [req |-> IF hasRequest THEN getRequest ELSE NewRequest(redirectCount, urlKind),
     stored |-> TRUE,
     log |-> liveEvents]

\* A mutation of #getBaseEventParams: the phase is not looked at, isBlocked stays false.
getBaseEventParamsNoPhase(blocked, event) == FALSE

\* #getBaseEventParams(phase).isBlocked of an event built while the phases in blocked
\* have intercepts; responseCompleted and fetchError are built without a phase.
getBaseEventParams(blocked, event) ==
    event \in InterceptPhases /\ isBlockedInPhase(blocked, event)

\* The isBlocked fields of the events of the stored instance.
liveBlocked == SubSeq(isBlocked, Len(emitted) - Len(liveEvents) + 1, Len(emitted))

\* An input of the request id: the CDP event, reply or command and its arguments.
Input(name, urlKind, a, b) == <<name, urlKind, a, b>>

Untracked == Input("untracked", "plain", FALSE, FALSE)

\* Every non-empty prefix of the sequences in a set.
Prefixes(S) == UNION {{SubSeq(s, 1, k) : k \in 1..Len(s)} : s \in S}

\* The input sequences that are followed step by step: a request without intercepts and
\* its response, with the response's extra info before or after the response.
PlainResponseInputs ==
    UNION {{<<Input("requestWillBeSent", u, FALSE, FALSE),
              Input("requestWillBeSentExtraInfo", u, FALSE, FALSE),
              Input("responseReceived", u, TRUE, d),
              Input("responseReceivedExtraInfo", u, FALSE, FALSE)>>,
            <<Input("requestWillBeSent", u, FALSE, FALSE),
              Input("requestWillBeSentExtraInfo", u, FALSE, FALSE),
              Input("responseReceivedExtraInfo", u, FALSE, FALSE),
              Input("responseReceived", u, TRUE, d)>>} : u \in UrlKinds, d \in BOOLEAN}

\* The orders in which three inputs can arrive.
Orders(a, b, c) == {<<a, b, c>>, <<a, c, b>>, <<b, a, c>>, <<b, c, a>>, <<c, a, b>>, <<c, b, a>>}

\* A request that an intercept holds before it is sent: requestWillBeSent, its extra info
\* and the request-stage Fetch.requestPaused in any order, then the client's
\* continueRequest, its CDP reply, and the response (without extra info).
BlockedRequestInputs ==
    {first \o <<Input("continueRequest", "plain", FALSE, FALSE),
                Input("commandReply", "plain", TRUE, FALSE),
                Input("responseReceived", "plain", FALSE, d)>> :
        first \in Orders(Input("requestWillBeSent", "plain", FALSE, FALSE),
                         Input("requestWillBeSentExtraInfo", "plain", FALSE, FALSE),
                         Input("requestPaused", "plain", FALSE, FALSE)),
        d \in BOOLEAN}

TrackedInputs == PlainResponseInputs \cup BlockedRequestInputs

TrackedPrefixes == Prefixes(TrackedInputs)

observe(input) ==
    IF Append(inputs, input) \in TrackedPrefixes THEN Append(inputs, input) ELSE <<Untracked>>

\* The interception command that is still running: one that returned or threw in the last
\* step is with its caller.
running(c) ==
    IF c.pc \in {"returned", "threw"} THEN [NoCommand EXCEPT !.calls = c.calls] ELSE c

\* The interception command c after a handler left the instance it was called on as
\* target: an emission resolves waitNextPhase (#phaseChanged), on which the second part of
\* continueResponse may be waiting; it then runs before the next CDP event.
afterHandler(c, target) ==
    IF c.target # "stored"
    THEN c
    ELSE LET signalled == c.signalled \/ Len(target.log) > Len(liveEvents)
             \* the signal and the phase of an instance that left matter to a call that waits
             phase == target.req.interceptPhase
             waits == c.thenResponse \/ c.pc = "awaitNextPhase"
             where == IF target.stored THEN "stored" ELSE IF waits THEN phase ELSE "none"
         IN  IF c.pc = "awaitNextPhase" /\ signalled
             THEN IF phase = "responseStarted"
                  THEN [c EXCEPT !.pc = "awaitReply",
                                 !.sent = Append(@, "Fetch.continueResponse"),
                                 !.signalled = TRUE, !.target = where]
                  ELSE [c EXCEPT !.pc = "returned", !.signalled = TRUE, !.target = where]
             ELSE [c EXCEPT !.signalled = IF waits THEN signalled ELSE @,
                            !.target = where]

\* The storage and the events after a handler returned n for the given input, target
\* being what it made of the instance that was stored when it began.
commitFor(target, n, input) ==
    /\ steps < MaxSteps
    /\ steps' = steps + 1
    /\ requests' = IF n.stored THEN {n.req} ELSE {}
    /\ emitted' = IF n.stored THEN n.log ELSE retire(n.log)
    /\ isBlocked' = [i \in DOMAIN n.log |->
                        IF i <= Len(liveEvents)
                        THEN liveBlocked[i]
                        ELSE getBaseEventParams(intercepts, n.log[i][2])]
    /\ command' = afterHandler(running(command), target)
    /\ inputs' = observe(input)
    /\ UNCHANGED <<queueVars, wsVars, subVars, scriptVars, sessionVars, targetVars, attachVars, channelVars, conversionVars, phaseVars>>

commit(n, input) == commitFor(n, n, input)

\* Network.requestWillBeSent listener
RequestWillBeSent ==
    \E urlKind \in urlKindsHere, fromDiskCache \in BOOLEAN :
        /\ IF hasRequest /\ isRedirecting(getRequest)
           THEN LET old == handleRedirect(getOrCreateNetworkRequest(0, urlKind),
                                             intercepts, fromDiskCache)
                    new == [req |-> NewRequest(old.req.redirectCount + 1, urlKind),
                            stored |-> TRUE,
                            log |-> retire(old.log)]
                IN  commitFor(deleteRequest(old), onRequestWillBeSentEvent(new, intercepts),
                              Input("requestWillBeSent", urlKind, TRUE, fromDiskCache))
           ELSE commit(onRequestWillBeSentEvent(getOrCreateNetworkRequest(0, urlKind), intercepts),
                       Input("requestWillBeSent", urlKind, FALSE, FALSE))
        /\ UNCHANGED intercepts

\* Network.requestWillBeSentExtraInfo listener
RequestWillBeSentExtraInfo ==
    \E urlKind \in urlKindsHere :
        /\ commit(onRequestWillBeSentExtraInfoEvent(getOrCreateNetworkRequest(0, urlKind), intercepts),
                  Input("requestWillBeSentExtraInfo", urlKind, FALSE, FALSE))
        /\ UNCHANGED intercepts

\* Network.responseReceived listener
ResponseReceived ==
    \E urlKind \in urlKindsHere, hasExtraInfo \in BOOLEAN, fromDiskCache \in BOOLEAN :
        /\ commit(onResponseReceivedEvent(getOrCreateNetworkRequest(0, urlKind), intercepts,
                                          hasExtraInfo, fromDiskCache),
                  Input("responseReceived", urlKind, hasExtraInfo, fromDiskCache))
        /\ UNCHANGED intercepts

\* Network.responseReceivedExtraInfo listener
ResponseReceivedExtraInfo ==
    \E urlKind \in urlKindsHere, isRedirectExtraInfo \in BOOLEAN :
        /\ commit(onResponseReceivedExtraInfoEvent(getOrCreateNetworkRequest(0, urlKind), intercepts,
                                                   isRedirectExtraInfo),
                  Input("responseReceivedExtraInfo", urlKind, isRedirectExtraInfo, FALSE))
        /\ UNCHANGED intercepts

\* Network.requestServedFromCache listener
RequestServedFromCache ==
    \E urlKind \in urlKindsHere :
        /\ commit(onServedFromCache(getOrCreateNetworkRequest(0, urlKind), intercepts),
                  Input("requestServedFromCache", urlKind, FALSE, FALSE))
        /\ UNCHANGED intercepts

\* Network.loadingFailed listener
LoadingFailed ==
    \E urlKind \in urlKindsHere :
        /\ commit(onLoadingFailedEvent(getOrCreateNetworkRequest(0, urlKind), intercepts),
                  Input("loadingFailed", urlKind, FALSE, FALSE))
        /\ UNCHANGED intercepts

\* Fetch.requestPaused listener (events that carry a networkId)
FetchRequestPaused ==
    \E urlKind \in urlKindsHere, responseStage \in BOOLEAN, fetchIsNetworkId \in BOOLEAN :
        LET n == onRequestPaused(getOrCreateNetworkRequest(0, urlKind), intercepts,
                                 responseStage, fetchIsNetworkId)
        IN  /\ commit(n, Input("requestPaused", urlKind, responseStage, fetchIsNetworkId))
            /\ UNCHANGED intercepts

\* Fetch.authRequired, routed to the request's onAuthRequired
FetchAuthRequired ==
    \E urlKind \in urlKindsHere, fetchIsNetworkId \in BOOLEAN :
        LET n == onAuthRequired(getOrCreateNetworkRequest(0, urlKind), intercepts, fetchIsNetworkId)
        IN  /\ commit(n, Input("authRequired", urlKind, fetchIsNetworkId, FALSE))
            /\ UNCHANGED intercepts

\* The CDP reply to an automatic Fetch.continue* command arrives: on success the
\* continuation clears interceptPhase, on failure the rejection leaves it as it is.
FetchCommandReplied ==
    \E ok \in BOOLEAN :
        /\ hasRequest
        /\ getRequest.inflight > 0
        /\ requests' = {[getRequest EXCEPT !.inflight = @ - 1,
                                           !.interceptPhase = IF ok THEN "none" ELSE @]}
        /\ emitted' = liveEvents
        /\ isBlocked' = liveBlocked
        /\ inputs' = observe(Input("reply", getRequest.urlKind, ok, FALSE))
        /\ steps < MaxSteps
        /\ steps' = steps + 1
        /\ command' = running(command)
        /\ UNCHANGED <<intercepts, queueVars, wsVars, subVars, scriptVars, sessionVars, targetVars, attachVars, channelVars, conversionVars, phaseVars>>

\* network.continueRequest, continueResponse, continueWithAuth, provideResponse or
\* failRequest: the client calls the command on the stored request; the call runs up to
\* its first await.  One call is followed at a time.
InterceptionCommand ==
    \E op \in InterceptionCommands, flag \in BOOLEAN :
        /\ hasRequest
        /\ command.pc \in {"idle", "returned", "threw"}
        /\ command.calls < MaxCalls
        /\ \E c \in {callCommand(getRequest, op, flag)} :
               command' = [op |-> op, pc |-> c.pc, error |-> c.error, sent |-> c.sent,
                           thenResponse |-> c.thenResponse, signalled |-> FALSE,
                           target |-> "stored", calls |-> command.calls + 1]
        /\ emitted' = liveEvents
        /\ isBlocked' = liveBlocked
        /\ inputs' = observe(Input(op, getRequest.urlKind, flag, FALSE))
        /\ steps < MaxSteps
        /\ steps' = steps + 1
        /\ UNCHANGED <<requests, intercepts, queueVars, wsVars, subVars, scriptVars, sessionVars, targetVars, attachVars, channelVars, conversionVars, phaseVars>>

\* The CDP reply to the Fetch command an interception command awaits: a rejection is
\* thrown to the caller; otherwise interceptPhase is cleared and the command returns,
\* except that continueResponse with credentials goes on to await waitNextPhase.
InterceptionCommandReplied ==
    \E ok \in BOOLEAN :
        /\ command.pc = "awaitReply"
        /\ requests' = IF ok /\ command.target = "stored"
                       THEN {[getRequest EXCEPT !.interceptPhase = "none"]}
                       ELSE requests
        /\ command' =
               IF ~ok
               THEN [command EXCEPT !.pc = "threw", !.error = "cdp error"]
               ELSE [command EXCEPT !.pc = IF command.thenResponse /\ ~command.signalled
                                           THEN "awaitNextPhase"
                                           ELSE "returned",
                                    !.thenResponse = FALSE,
                                    !.target = IF @ = "stored" THEN @ ELSE "none"]
        /\ emitted' = liveEvents
        /\ isBlocked' = liveBlocked
        /\ inputs' = observe(Input("commandReply", "plain", ok, FALSE))
        /\ steps < MaxSteps
        /\ steps' = steps + 1
        /\ UNCHANGED <<intercepts, queueVars, wsVars, subVars, scriptVars, sessionVars, targetVars, attachVars, channelVars, conversionVars, phaseVars>>

\* network.addIntercept / session.subscribe make a phase blocking for the request
AddIntercept ==
    \E phase \in InterceptPhases :
        /\ phase \notin intercepts
        /\ intercepts' = intercepts \cup {phase}
        /\ emitted' = liveEvents
        /\ isBlocked' = liveBlocked
        /\ inputs' = observe(Input("addIntercept", phase, FALSE, FALSE))
        /\ command' = running(command)
        /\ steps < MaxSteps
        /\ steps' = steps + 1
        /\ UNCHANGED <<requests, queueVars, wsVars, subVars, scriptVars, sessionVars, targetVars, attachVars, channelVars, conversionVars, phaseVars>>

\* network.removeIntercept / session.unsubscribe
RemoveIntercept ==
    \E phase \in intercepts :
        /\ intercepts' = intercepts \ {phase}
        /\ emitted' = liveEvents
        /\ isBlocked' = liveBlocked
        /\ inputs' = observe(Input("removeIntercept", phase, FALSE, FALSE))
        /\ command' = running(command)
        /\ steps < MaxSteps
        /\ steps' = steps + 1
        /\ UNCHANGED <<requests, queueVars, wsVars, subVars, scriptVars, sessionVars, targetVars, attachVars, channelVars, conversionVars, phaseVars>>

InitNet ==
    /\ requests = {}
    /\ emitted = <<>>
    /\ intercepts = {}
    /\ steps = 0
    /\ isBlocked = <<>>
    /\ command = NoCommand
    /\ inputs = <<>>

\* The request id's intercepts were registered before its first CDP event, for the
\* beforeRequestSent and the authRequired phase.
InitFetch ==
    /\ requests = {}
    /\ emitted = <<>>
    /\ intercepts = {"beforeRequestSent", "authRequired"}
    /\ steps = 0
    /\ isBlocked = <<>>
    /\ command = NoCommand
    /\ inputs = <<>>

NextNet ==
    \/ RequestWillBeSent
    \/ RequestWillBeSentExtraInfo
    \/ ResponseReceived
    \/ ResponseReceivedExtraInfo
    \/ RequestServedFromCache
    \/ LoadingFailed
    \/ FetchRequestPaused
    \/ FetchAuthRequired
    \/ FetchCommandReplied
    \/ AddIntercept
    \/ RemoveIntercept

\* The CDP events of the request id and the client's interception commands on it.
NextFetch ==
    \/ RequestWillBeSent
    \/ RequestWillBeSentExtraInfo
    \/ ResponseReceived
    \/ ResponseReceivedExtraInfo
    \/ RequestServedFromCache
    \/ LoadingFailed
    \/ FetchRequestPaused
    \/ FetchAuthRequired
    \/ FetchCommandReplied
    \/ InterceptionCommand
    \/ InterceptionCommandReplied

(***************************************************************************)
(* Claims about the network request state machine (checked under SpecNet). *)
(***************************************************************************)
InstanceTags == {"live", "gone"}

OneShotEvents == NetworkEvents \ {"authRequired"}

\* Positions of the emitted events of instance t that are the event e.
occurrences(t, e) == {i \in DOMAIN emitted : emitted[i] = <<t, e>>}

\* C1: every request instance emits beforeRequestSent, responseStarted, responseCompleted
\* and fetchError at most once each, whatever CDP events arrive and in whatever order;
\* only authRequired may be emitted more than once.
C1_AtMostOnce ==
    \A t \in InstanceTags, e \in OneShotEvents : Cardinality(occurrences(t, e)) <= 1

\* C1 witness: a stored request emitted beforeRequestSent, then authRequired twice, then
\* fetchError; no intercept was ever added, so the Network.loadingFailed handler evaluated
\* the beforeRequestSent condition again and the flag suppressed the second emission.
C1_Witness ==
    /\ emitted = <<<<"live", "beforeRequestSent">>, <<"live", "authRequired">>,
                   <<"live", "authRequired">>, <<"live", "fetchError">>>>
    /\ steps <= 5
    /\ intercepts = {}

\* C2: a request instance that emits responseStarted has emitted beforeRequestSent before.
C2_StartedAfterBeforeRequestSent ==
    \A t \in InstanceTags :
        \A i \in occurrences(t, "responseStarted") :
            \E j \in occurrences(t, "beforeRequestSent") : j < i

\* C3: a request instance that emits responseCompleted has emitted both
\* beforeRequestSent and responseStarted before it.
C3_CompletedAfterBoth ==
    \A t \in InstanceTags :
        \A i \in occurrences(t, "responseCompleted") :
            /\ \E j \in occurrences(t, "beforeRequestSent") : j < i
            /\ \E k \in occurrences(t, "responseStarted") : k < i

\* The three events of a request and its response, as events of the instance t.
ThreeEvents(t) == <<<<t, "beforeRequestSent">>, <<t, "responseStarted">>, <<t, "responseCompleted">>>>

\* C12: without intercepts, the inputs requestWillBeSent, requestWillBeSentExtraInfo,
\* responseReceived (hasExtraInfo = true) and responseReceivedExtraInfo, the last two in
\* either order, make a request whose URL is not a favicon's emit exactly beforeRequestSent,
\* responseStarted and responseCompleted, in this order, all by the one instance with
\* redirectCount 0, which the fourth input removes from the storage.
C12_ThreeEventsInOrder ==
    \A s \in PlainResponseInputs :
        s[1][2] # "favicon" =>
            /\ \A k \in 1..3 :
                   inputs = SubSeq(s, 1, k) =>
                       /\ \E r \in requests : r.redirectCount = 0
                       /\ Len(emitted) <= 3
                       /\ emitted = SubSeq(ThreeEvents("live"), 1, Len(emitted))
            /\ inputs = s => /\ requests = {}
                             /\ emitted = ThreeEvents("gone")

\* The response's extra info came before the response and the three events were emitted.
C12_Witness ==
    /\ inputs \in PlainResponseInputs
    /\ inputs[1][2] = "plain"
    /\ inputs[3][1] = "responseReceivedExtraInfo"
    /\ emitted = ThreeEvents("gone")
    /\ intercepts = {}

\* C13: a redirect (Network.requestWillBeSent for an id whose stored request already has
\* its request.info) makes the stored request, unless its URL is a favicon's, record the
\* redirect response without extra info and emit responseCompleted; it leaves the storage
\* and a fresh request with redirectCount + 1 is stored and has received the event.
C13_RedirectCompletesOldRequest ==
    [][(/\ hasRequest
        /\ isRedirecting(getRequest)
        /\ getRequest.urlKind # "favicon"
        /\ RequestWillBeSent)
       => /\ \E i \in DOMAIN emitted' : emitted'[i] = <<"gone", "responseCompleted">>
          /\ \E r \in requests' :
                 /\ requests' = {r}
                 /\ r.redirectCount = getRequest.redirectCount + 1
                 /\ r.reqInfo
                 /\ ~r.respInfo]_vars

\* C14: an interception command (continueRequest, continueResponse, continueWithAuth,
\* provideResponse, failRequest) called on a request whose fetchId is not set throws the
\* unknown error 'Network Interception not set-up' and sends no Fetch command.
C14_UnsetFetchIdFails ==
    [][(/\ hasRequest
        /\ ~getRequest.fetchId
        /\ command'.calls = command.calls + 1)
       => /\ command'.pc = "threw"
          /\ command'.error = "unknown error"
          /\ command'.sent = <<>>]_vars

\* C15: with an intercept for the beforeRequestSent phase, a request (not a favicon's) that
\* has received requestWillBeSent, requestWillBeSentExtraInfo and the request-stage
\* Fetch.requestPaused, in any order, has emitted beforeRequestSent with isBlocked = true
\* and is held in that phase; the client's continueRequest, once Fetch.continueRequest is
\* answered, leaves interceptPhase unset, and the response that follows makes the request
\* emit responseStarted and responseCompleted.
C15_BlockedThenContinued ==
    /\ \A r \in requests :
           (/\ "beforeRequestSent" \in intercepts
            /\ r.reqInfo /\ r.reqExtraInfo /\ r.reqPaused
            /\ r.urlKind # "favicon")
           => \E i \in DOMAIN emitted :
                  emitted[i] = <<"live", "beforeRequestSent">> /\ isBlocked[i]
    /\ "beforeRequestSent" \in intercepts =>
           \A s \in BlockedRequestInputs :
               /\ inputs = SubSeq(s, 1, 3) =>
                      /\ emitted = <<<<"live", "beforeRequestSent">>>>
                      /\ isBlocked = <<TRUE>>
                      /\ \A r \in requests : r.interceptPhase = "beforeRequestSent"
               /\ inputs = SubSeq(s, 1, 4) =>
                      /\ command.pc = "awaitReply"
                      /\ command.sent = <<"Fetch.continueRequest">>
               /\ inputs = SubSeq(s, 1, 5) =>
                      /\ command.pc = "returned"
                      /\ requests # {}
                      /\ \A r \in requests : r.interceptPhase = "none"
               /\ inputs = s =>
                      /\ emitted = ThreeEvents("gone")
                      /\ isBlocked = <<TRUE, FALSE, FALSE>>

\* Fetch.requestPaused came first, the request was continued and its response completed.
C15_Witness ==
    /\ "beforeRequestSent" \in intercepts
    /\ inputs \in BlockedRequestInputs
    /\ inputs[1][1] = "requestPaused"
    /\ emitted = ThreeEvents("gone")
    /\ isBlocked[1]

\* Request interception is expected for r while the phases in blocked have intercepts.
interceptionExpectedFor(r, blocked) ==
    ~(isDataUrl(r) \/ r.servedFromCache) /\ isBlockedInPhase(blocked, "beforeRequestSent")

\* requestExtraInfoCompleted of r, a request that emitted fetchError having failed.
extraInfoCompletedFor(r) ==
    \/ r.emittedEvents["fetchError"]
    \/ isDataUrl(r)
    \/ r.reqExtraInfo
    \/ r.servedFromCache
    \/ (r.respInfo /\ ~r.respHasExtraInfo)

\* The request new, stored after the step, emitted its beforeRequestSent in the step.
emitsBeforeRequestSent(new) ==
    /\ new.emittedEvents["beforeRequestSent"]
    /\ \A old \in requests :
           \/ ~old.emittedEvents["beforeRequestSent"]
           \/ new.redirectCount # old.redirectCount

\* The second of Network.requestWillBeSent and Network.requestWillBeSentExtraInfo
\* arrives in the step for the request new, stored after the step.
bothArrive(new) ==
    /\ new.reqInfo /\ new.reqExtraInfo
    /\ \A old \in requests : ~(old.reqInfo /\ old.reqExtraInfo)

\* C22: a request instance emits beforeRequestSent at most once, and a stored request
\* that emitted it has its request.info; the step in which a request that stays stored
\* emits it leaves the request with request.info and, if request interception is
\* expected, with the request-stage Fetch.requestPaused, otherwise with
\* requestExtraInfoCompleted (failed, data: URL, extraInfo, served from cache, or response
\* without extra info); and the step in which the second of requestWillBeSent and
\* requestWillBeSentExtraInfo arrives, in either order, emits it, unless request
\* interception is expected or the URL is a favicon's.
C22_BeforeRequestSentOnceWhenReady ==
    /\ [](\A t \in InstanceTags : Cardinality(occurrences(t, "beforeRequestSent")) <= 1)
    /\ []((hasRequest /\ getRequest.emittedEvents["beforeRequestSent"]) => getRequest.reqInfo)
    /\ [][\A new \in requests' :
            /\ emitsBeforeRequestSent(new) =>
                 /\ new.reqInfo
                 /\ IF interceptionExpectedFor(new, intercepts)
                    THEN new.reqPaused
                    ELSE extraInfoCompletedFor(new)
            /\ (/\ bothArrive(new)
                /\ ~interceptionExpectedFor(new, intercepts)
                /\ ~isIgnoredEvent(new))
               => /\ new.emittedEvents["beforeRequestSent"]
                  /\ \E i \in DOMAIN emitted' : emitted'[i] = <<"live", "beforeRequestSent">>]_vars

\* C22 witness: Network.requestWillBeSentExtraInfo arrived before
\* Network.requestWillBeSent, without intercepts, and the second of them emitted
\* beforeRequestSent, the only event so far.
C22_Witness ==
    /\ inputs = <<Input("requestWillBeSentExtraInfo", "plain", FALSE, FALSE),
                  Input("requestWillBeSent", "plain", FALSE, FALSE)>>
    /\ intercepts = {}
    /\ emitted = <<<<"live", "beforeRequestSent">>>>
    /\ hasRequest /\ getRequest.reqInfo /\ getRequest.reqExtraInfo

\* response.info is present, responseExtraInfoCompleted holds and response interception
\* is complete for r while the phases in blocked have intercepts.
responseComplete(r, blocked) ==
    /\ r.respInfo
    /\ r.respExtraInfo \/ r.servedFromCache \/ ~r.respHasExtraInfo
    /\ \/ isDataUrl(r) \/ r.servedFromCache
       \/ ~isBlockedInPhase(blocked, "responseStarted")
       \/ r.respPaused

\* C23: no request that has emitted responseCompleted is in the storage (the event is
\* only ever that of an instance that left it), and a flush of the stored request emits
\* responseCompleted exactly when response.info is present, responseExtraInfoCompleted
\* holds and response interception is complete (the event of a favicon being
\* suppressed), and then removes the request from the storage.
C23_CompletedRequestIsRemoved ==
    /\ occurrences("live", "responseCompleted") = {}
    /\ \A r \in requests :
        /\ ~r.emittedEvents["responseCompleted"]
        /\ \E n \in {emitEventsIfReady([req |-> r, stored |-> TRUE, log |-> <<>>],
                                       intercepts, FALSE, FALSE)} :
              /\ n.req.emittedEvents["responseCompleted"] =>
                     responseComplete(r, intercepts)
              /\ responseComplete(r, intercepts) =>
                     /\ ~n.stored
                     /\ isIgnoredEvent(r) \/ n.req.emittedEvents["responseCompleted"]
              /\ n.stored \/ responseComplete(r, intercepts)

\* C23 witness: with an intercept for the responseStarted phase, a request emitted
\* responseCompleted as its last event in the last step and is no longer stored.
C23_Witness ==
    /\ "responseStarted" \in intercepts
    /\ requests = {}
    /\ emitted # <<>>
    /\ emitted[Len(emitted)] = <<"gone", "responseCompleted">>
    /\ <<"gone", "responseStarted">> \in {emitted[i] : i \in DOMAIN emitted}

\* The places of emitted' that hold the events emitted in the step (a step that is not
\* a redirect keeps the events of the stored instance in front).
emittedInStep == (Len(liveEvents) + 1)..Len(emitted')

\* C24: the step that emits fetchError (Network.loadingFailed) emits it as its last
\* event, after the events its flush emits; and if the failed request stays stored and
\* has request.info, with the request-stage pause if request interception is expected,
\* its beforeRequestSent has been emitted before the fetchError.
C24_FetchErrorIsLast ==
    [][\A i \in emittedInStep :
          emitted'[i][2] = "fetchError" =>
              /\ i = Len(emitted')
              /\ \A new \in requests' :
                    (new.reqInfo /\ (interceptionExpectedFor(new, intercepts) => new.reqPaused))
                    => \E j \in 1..(i - 1) : emitted'[j] = <<"live", "beforeRequestSent">>]_vars

\* C24 witness: a plain request of which only Network.requestWillBeSent had arrived
\* failed: the flush emitted the pending beforeRequestSent, then fetchError followed.
C24_Witness ==
    /\ emitted = <<<<"live", "beforeRequestSent">>, <<"live", "fetchError">>>>
    /\ \E r \in requests :
          /\ r.urlKind = "plain" /\ r.reqInfo
          /\ ~r.reqExtraInfo /\ ~r.reqPaused /\ ~r.respInfo /\ ~r.servedFromCache

\* C25: a stored request whose URL, known from one of its CDP events, ends with
\* /favicon.ico has emitted no BiDi network event, whatever CDP events arrived and in
\* whatever order.
C25_FaviconEmitsNothing ==
    \A r \in requests :
        (r.urlKind = "favicon" /\ urlKnown(r)) =>
            /\ liveEvents = <<>>
            /\ \A e \in NetworkEvents : ~r.emittedEvents[e]

\* C26: an event emitted with isBlocked = true finds its request held at the phase of the
\* event: interceptPhase is that phase, and the handler that emitted it has sent no
\* automatic Fetch.continue* command for the request.
C26_BlockedEventIsHeld ==
    [][\A i \in emittedInStep :
           (emitted'[i][1] = "live" /\ isBlocked'[i])
           => \A new \in requests' :
                  /\ new.interceptPhase = emitted'[i][2]
                  /\ \A old \in requests : new.inflight <= old.inflight]_vars

\* The request before a pause and the result of the handler: either the request is now
\* held at the phase of the pause and nothing was sent, or exactly one automatic
\* Fetch.continue* command was sent for it.
heldOrContinued(before, after, phase) ==
    IF after.interceptPhase = phase /\ after.inflight = before.inflight
    THEN isBlockedInPhase(intercepts, phase)
    ELSE after.inflight = before.inflight + 1

\* C27: in every state, whichever Fetch.requestPaused or Fetch.authRequired arrives next,
\* the handler either holds the request at the phase of the pause (an intercept of that
\* phase exists) or sends the matching automatic continue: no pause leaves the request
\* without interceptPhase and without a continue command.
C27_UnblockedPauseIsContinued ==
    \A urlKind \in urlKindsHere, fetchIsNetworkId \in BOOLEAN :
        \E n \in {getOrCreateNetworkRequest(0, urlKind)} :
            /\ \A responseStage \in BOOLEAN :
                   heldOrContinued(n.req,
                                   onRequestPaused(n, intercepts, responseStage,
                                                   fetchIsNetworkId).req,
                                   IF responseStage THEN "responseStarted"
                                                    ELSE "beforeRequestSent")
            /\ heldOrContinued(n.req,
                               onAuthRequired(n, intercepts, fetchIsNetworkId).req,
                               "authRequired")

\* Under an intercept of the responseStarted phase only, the request was paused at the
\* request stage and at the response stage, is not held, and two automatic continues
\* were sent for it.
C27_Witness ==
    /\ intercepts = {"responseStarted"}
    /\ \E r \in requests : /\ r.reqPaused /\ r.respPaused
                           /\ r.interceptPhase = "none"
                           /\ r.inflight = 2

\* C28: a request that has emitted fetchError is not in the network storage any more.
C28_FailedRequestIsRemoved ==
    \A r \in requests : ~r.emittedEvents["fetchError"]

(***************************************************************************)
(* Outgoing messages: BidiServer.emitOutgoingMessage and the               *)
(* ProcessingQueue it feeds.  A message is a promise of a result; the      *)
(* promises are numbered in the order of the emitOutgoingMessage calls.    *)
(***************************************************************************)
MaxFutures == 4   \* outgoing messages registered

SettledStates == {"resolved", "failed"}
PromiseStates == {"pending"} \cup SettledStates

\* ProcessingQueue.add: the slot goes to the end of the pending slots
add(queue, entry) == Append(queue, entry)

\* A mutation of emitOutgoingMessage: the newest message goes in front of the pending ones.
emitOutgoingMessageInFront(queue, entry) == <<entry>> \o queue

\* BidiServer.emitOutgoingMessage
emitOutgoingMessage(queue, entry) == add(queue, entry)

\* The event manager or the command processor registers an outgoing message,
\* whose promise may be settled already.
EmitOutgoingMessage ==
    \E state \in PromiseStates :
        LET entry == Len(futures) + 1
        IN  /\ Len(futures) < MaxFutures
            /\ futures' = Append(futures, state)
            /\ slots' = emitOutgoingMessage(slots, entry)
            /\ settled' = IF state = "pending" THEN settled ELSE Append(settled, entry)
            /\ UNCHANGED <<delivered, skipped, netVars, wsVars, subVars, scriptVars, sessionVars, targetVars, attachVars, channelVars, conversionVars, phaseVars>>

\* A pending promise settles: with a message, or with an error.
SettlePromise ==
    \E entry \in DOMAIN futures, state \in SettledStates :
        /\ futures[entry] = "pending"
        /\ futures' = [futures EXCEPT ![entry] = state]
        /\ settled' = Append(settled, entry)
        /\ UNCHANGED <<slots, delivered, skipped, netVars, wsVars, subVars, scriptVars, sessionVars, targetVars, attachVars, channelVars, conversionVars, phaseVars>>

\* The head slot resolved: its message is flushed to the consumer
\* (BidiServer.#processOutgoingMessage sends it on the transport).
ProcessHead ==
    /\ slots # <<>>
    /\ futures[Head(slots)] = "resolved"
    /\ delivered' = Append(delivered, Head(slots))
    /\ slots' = Tail(slots)
    /\ UNCHANGED <<futures, settled, skipped, netVars, wsVars, subVars, scriptVars, sessionVars, targetVars, attachVars, channelVars, conversionVars, phaseVars>>

\* A mutation of SkipHead: the queue stays on a head slot that failed.
SkipHeadStalls ==
    /\ slots # <<>>
    /\ futures[Head(slots)] = "failed"
    /\ FALSE
    /\ UNCHANGED vars

\* The head slot failed: it is logged with its tag and skipped.
SkipHead ==
    /\ slots # <<>>
    /\ futures[Head(slots)] = "failed"
    /\ skipped' = Append(skipped, Head(slots))
    /\ slots' = Tail(slots)
    /\ UNCHANGED <<futures, settled, delivered, netVars, wsVars, subVars, scriptVars, sessionVars, targetVars, attachVars, channelVars, conversionVars, phaseVars>>

InitQueue ==
    /\ futures = <<>>
    /\ slots = <<>>
    /\ settled = <<>>
    /\ delivered = <<>>
    /\ skipped = <<>>

NextQueue ==
    \/ EmitOutgoingMessage
    \/ SettlePromise
    \/ ProcessHead
    \/ SkipHead

(***************************************************************************)
(* Claims about the outgoing event queue (checked under SpecQueue).        *)
(***************************************************************************)
Range(seq) == {seq[i] : i \in DOMAIN seq}

\* C4: the queue delivers the messages in the order in which they were
\* registered with add(future, tag), whatever the order in which the futures
\* resolve: a delivered message was registered after every message delivered
\* before it, and every message registered before it has been delivered or
\* (having failed) skipped.
C4_DeliveredInAddOrder ==
    \A i \in DOMAIN delivered :
        /\ \A j \in DOMAIN delivered : j < i => delivered[j] < delivered[i]
        /\ \A entry \in 1..(delivered[i] - 1) :
               entry \in Range(SubSeq(delivered, 1, i - 1)) \cup Range(skipped)

\* C4 witness: the second message resolved first, and the two were delivered
\* in the order of their registration.
C4_Witness ==
    /\ Len(settled) >= 2
    /\ settled[1] = 2
    /\ settled[2] = 1
    /\ Len(delivered) >= 2
    /\ delivered[1] = 1
    /\ delivered[2] = 2

\* C18: a message whose future failed is logged and skipped, never delivered, and it does
\* not hold up the queue: the messages delivered are resolved ones in the order of their
\* registration, a failed message whose predecessors have settled is eventually skipped,
\* and a resolved one whose predecessors have settled (failed ones among them) is
\* eventually delivered.
C18_FailedFutureIsSkipped ==
    /\ [](/\ \A e \in Range(skipped) : futures[e] = "failed" /\ e \notin Range(delivered)
          /\ \A e \in Range(delivered) : futures[e] = "resolved"
          /\ \A i, j \in DOMAIN delivered : i < j => delivered[i] < delivered[j])
    /\ \A e \in 1..MaxFutures :
           (/\ e \in DOMAIN futures
            /\ futures[e] = "failed"
            /\ \A k \in 1..(e - 1) : futures[k] # "pending")
           ~> (e \in Range(skipped))
    /\ \A e \in 1..MaxFutures :
           (/\ e \in DOMAIN futures
            /\ futures[e] = "resolved"
            /\ \A k \in 1..(e - 1) : futures[k] # "pending")
           ~> (e \in Range(delivered))

\* The first message failed and was skipped; the two registered after it were delivered.
C18_Witness ==
    /\ skipped = <<1>>
    /\ delivered = <<2, 3>>
    /\ futures[1] = "failed"

(***************************************************************************)
(* The WebSocket front end: one connection, its frames and the handler of  *)
(* the connection's 'message' event, which suspends at each await.         *)
(***************************************************************************)
MaxCommands == 3   \* frames received on the connection

\* What a frame carries: a non-text frame, text that is not JSON, the JSON
\* text null, or a JSON command with the given method.
FrameKinds == {"binary", "notJson", "jsonNull", "session.new", "browser.close", "other"}

\* The frame's handler ended (returned or threw) sending the given number of responses;
\* error is the code of the error response it sent, forwarded whether the frame was
\* sent to the mapper.
ended(frame, how, sent) ==
    [kind |-> frame, pc |-> how, responses |-> sent, error |-> "none", forwarded |-> FALSE]

\* #respondWithError(connection, plainCommandData, errorCode, message) and return
respondWithError(frame, errorCode) == [ended(frame, "returned", 1) EXCEPT !.error = errorCode]

\* A mutation of onMessage: the test of session === undefined is missing.
onMessageNoSessionTest(frame, session, browser) ==
    IF frame = "binary" THEN respondWithError(frame, "invalid argument")
    ELSE IF frame = "notJson" THEN respondWithError(frame, "invalid argument")
    ELSE IF frame = "jsonNull" THEN ended(frame, "threw", 0)
    ELSE IF frame = "session.new"
         THEN IF session # "undefined"
              THEN respondWithError(frame, "session not created")
              ELSE ended(frame, "awaitLaunch", 0)
    ELSE IF browser = "undefined" /\ session # "undefined"
         THEN respondWithError(frame, "invalid session id")
    ELSE ended(frame, "awaitBrowser", 0)

\* The handler of the 'message' event, up to its first await.
onMessage(frame, session, browser) ==
    IF frame = "binary" THEN respondWithError(frame, "invalid argument")
    ELSE IF frame = "notJson" THEN respondWithError(frame, "invalid argument")
    \* parsedCommandData is null: reading parsedCommandData.method throws
    ELSE IF frame = "jsonNull" THEN ended(frame, "threw", 0)
    ELSE IF frame = "session.new"
         THEN IF session # "undefined"
              THEN respondWithError(frame, "session not created")
              ELSE ended(frame, "awaitLaunch", 0)
    ELSE IF session = "undefined" THEN respondWithError(frame, "invalid session id")
    ELSE IF browser = "undefined" THEN respondWithError(frame, "invalid session id")
    ELSE ended(frame, "awaitBrowser", 0)

\* #onWsRequest: the connection is accepted, on the bare path or on the path
\* of a session created by POST /session, for which a browser is launched.
WsConnect ==
    \E withSession \in BOOLEAN :
        /\ wsConnection = "none"
        /\ wsConnection' = "open"
        /\ wsSession' = IF withSession THEN "defined" ELSE "undefined"
        /\ wsBrowser' = IF withSession THEN "launching" ELSE "undefined"
        /\ UNCHANGED <<wsCommands, netVars, queueVars, subVars, scriptVars, sessionVars, targetVars, attachVars, channelVars, conversionVars, phaseVars>>

\* The launch started by #onWsRequest ends; on failure the connection is closed.
WsBrowserLaunchSettled ==
    \E ok \in BOOLEAN :
        /\ wsConnection = "open"
        /\ wsBrowser = "launching"
        /\ wsBrowser' = IF ok THEN "launched" ELSE "failed"
        /\ wsConnection' = IF ok THEN "open" ELSE "closed"
        /\ UNCHANGED <<wsSession, wsCommands, netVars, queueVars, subVars, scriptVars, sessionVars, targetVars, attachVars, channelVars, conversionVars, phaseVars>>

\* A frame arrives and its handler runs to its first await.
WsMessage ==
    \E frame \in FrameKinds :
        /\ wsConnection = "open"
        /\ Len(wsCommands) < MaxCommands
        /\ wsCommands' = Append(wsCommands, onMessage(frame, wsSession, wsBrowser))
        /\ UNCHANGED <<wsConnection, wsSession, wsBrowser, netVars, queueVars, subVars, scriptVars, sessionVars, targetVars, attachVars, channelVars, conversionVars, phaseVars>>

\* session.new: the awaited #launchBrowserInstance ends; the session is set
\* and the success response sent, or the error response is sent.
WsSessionNewSettled ==
    \E i \in DOMAIN wsCommands, ok \in BOOLEAN :
        /\ wsConnection = "open"
        /\ wsCommands[i].pc = "awaitLaunch"
        /\ wsCommands' = [wsCommands EXCEPT ![i] =
               IF ok
               THEN ended(@.kind, "returned", @.responses + 1)
               ELSE respondWithError(@.kind, "session not created")]
        /\ wsSession' = IF ok THEN "defined" ELSE wsSession
        /\ wsBrowser' = IF ok THEN "launched" ELSE wsBrowser
        /\ UNCHANGED <<wsConnection, netVars, queueVars, subVars, scriptVars, sessionVars, targetVars, attachVars, channelVars, conversionVars, phaseVars>>

\* The awaited session.browserInstancePromise resolved: browser.close goes on
\* to close the instance, any other command is sent to the mapper.
WsBrowserAwaited ==
    \E i \in DOMAIN wsCommands :
        /\ wsConnection = "open"
        /\ wsCommands[i].pc = "awaitBrowser"
        /\ wsBrowser \in {"launched", "closed"}
        /\ wsCommands' = [wsCommands EXCEPT ![i] =
               IF @.kind = "browser.close"
               THEN [@ EXCEPT !.pc = "awaitClose"]
               ELSE [@ EXCEPT !.pc = "awaitMapper", !.forwarded = TRUE]]
        /\ UNCHANGED <<wsConnection, wsSession, wsBrowser, netVars, queueVars, subVars, scriptVars, sessionVars, targetVars, attachVars, channelVars, conversionVars, phaseVars>>

\* browser.close: the awaited browserInstance.close() ends and the success
\* response is sent.
WsBrowserClosed ==
    \E i \in DOMAIN wsCommands :
        /\ wsConnection = "open"
        /\ wsCommands[i].pc = "awaitClose"
        /\ wsBrowser' = "closed"
        /\ wsCommands' = [wsCommands EXCEPT ![i] = ended(@.kind, "returned", @.responses + 1)]
        /\ UNCHANGED <<wsConnection, wsSession, netVars, queueVars, subVars, scriptVars, sessionVars, targetVars, attachVars, channelVars, conversionVars, phaseVars>>

\* A forwarded command: the mapper of a running browser answers it and the
\* answer is forwarded to the client; the send to a closed browser fails and
\* is only logged.
WsMapperSettled ==
    \E i \in DOMAIN wsCommands :
        /\ wsConnection = "open"
        /\ wsCommands[i].pc = "awaitMapper"
        /\ wsCommands' = [wsCommands EXCEPT ![i] =
               [@ EXCEPT !.pc = "returned",
                         !.responses = IF wsBrowser = "launched" THEN @ + 1 ELSE @]]
        /\ UNCHANGED <<wsConnection, wsSession, wsBrowser, netVars, queueVars, subVars, scriptVars, sessionVars, targetVars, attachVars, channelVars, conversionVars, phaseVars>>

\* The peer disconnects: the 'close' handler closes the browser instance if launched.
WsClose ==
    /\ wsConnection = "open"
    /\ wsConnection' = "closed"
    /\ wsBrowser' = IF wsSession = "defined" /\ wsBrowser \in {"launched", "closed"}
                    THEN "undefined" ELSE wsBrowser
    /\ UNCHANGED <<wsSession, wsCommands, netVars, queueVars, subVars, scriptVars, sessionVars, targetVars, attachVars, channelVars, conversionVars, phaseVars>>

InitWs ==
    /\ wsConnection = "none"
    /\ wsSession = "undefined"
    /\ wsBrowser = "undefined"
    /\ wsCommands = <<>>

NextWs ==
    \/ WsConnect
    \/ WsBrowserLaunchSettled
    \/ WsMessage
    \/ WsSessionNewSettled
    \/ WsBrowserAwaited
    \/ WsBrowserClosed
    \/ WsMapperSettled
    \/ WsClose

(***************************************************************************)
(* Claims about the WebSocket front end (checked under SpecWs).            *)
(***************************************************************************)
HandlerEnded == {"returned", "threw"}

\* C5: every client command received on a WebSocket connection gets exactly
\* one response: on an open connection no frame has more than one response,
\* and a frame whose handling ended has one.
C5_ExactlyOneResponse ==
    wsConnection = "open" =>
        \A i \in DOMAIN wsCommands :
            /\ wsCommands[i].responses <= 1
            /\ wsCommands[i].pc \in HandlerEnded => wsCommands[i].responses = 1

CommandFrames == {"browser.close", "other"}

\* C19: a command other than session.new received on a connection that has no
\* associated session is answered with the error "invalid session id" and is not
\* forwarded: the handler of such a frame returns at once having sent that one
\* error response, without sending the frame to the mapper.
C19_NoSessionIsInvalidSessionId ==
    [][(/\ wsSession = "undefined"
        /\ Len(wsCommands') = Len(wsCommands) + 1
        /\ wsCommands'[Len(wsCommands')].kind \in CommandFrames)
       => wsCommands'[Len(wsCommands')] =
              [kind |-> wsCommands'[Len(wsCommands')].kind, pc |-> "returned",
               responses |-> 1, error |-> "invalid session id", forwarded |-> FALSE]]_vars

\* A command "other" received on an open connection without a session was answered
\* with invalid session id and was not forwarded.
C19_Witness ==
    /\ wsSession = "undefined"
    /\ wsConnection = "open"
    /\ \E i \in DOMAIN wsCommands :
          /\ wsCommands[i].kind = "other"
          /\ wsCommands[i].error = "invalid session id"
          /\ wsCommands[i].responses = 1
          /\ ~wsCommands[i].forwarded

(***************************************************************************)
(* BrowsingContextStorage and SubscriptionManager                          *)
(***************************************************************************)
MaxSubscriptions == 2   \* subscribe calls, each taking a fresh subscription id

null == "null"

\* The browsing contexts of the model: a top-level context with a child and
\* a grandchild, and a second top-level context.
ContextTree ==
    [c \in {"top1", "child1", "grandchild1", "top2"} |->
        IF c = "child1" THEN "top1" ELSE IF c = "grandchild1" THEN "child1" ELSE null]

NetworkEventNames ==
    {"network.authRequired", "network.beforeRequestSent", "network.fetchError",
     "network.responseCompleted", "network.responseStarted"}
LogEventNames == {"log.entryAdded"}

\* The enum order of the event names (the iteration order of a Set built by unrollEvents)
EventOrder ==
    <<"log.entryAdded", "network.authRequired", "network.beforeRequestSent",
      "network.fetchError", "network.responseCompleted", "network.responseStarted">>

\* name.split('.').at(0)
moduleOf(name) ==
    IF name \in NetworkEventNames \cup {"network"} THEN "network"
    ELSE IF name \in LogEventNames \cup {"log"} THEN "log"
    ELSE name

\* The arguments of the calls
EventNameInputs == {{"network"}, {"network.beforeRequestSent"}}
ContextInputs == {{}, {"grandchild1"}, {"top1", "top2"}, {"unknown"}}
Channels == {"a", "b"}
ContextIds == UNION ContextInputs \cup DOMAIN ContextTree

findContext(id) == id \in DOMAIN contexts

\* A mutation of findTopLevelContextId: the parent is returned, not its top-level context.
findTopLevelContextIdOfParent(id) ==
    IF id = null THEN null
    ELSE LET parentId == IF findContext(id) THEN contexts[id] ELSE null
         IN  IF parentId = null THEN id ELSE parentId

RECURSIVE findTopLevelContextId(_)
findTopLevelContextId(id) ==
    IF id = null THEN null
    ELSE LET parentId == IF findContext(id) THEN contexts[id] ELSE null
         IN  IF parentId = null THEN id ELSE findTopLevelContextId(parentId)

\* A mutation of unrollEvents: a module name is kept as it is given.
unrollEventsAsGiven(events) == events

unrollEvents(events) ==
    UNION {IF event = "log" THEN LogEventNames
           ELSE IF event = "network" THEN NetworkEventNames
           ELSE {event} : event \in events}

intersection(setA, setB) == {a \in setA : a \in setB}
equal(setA, setB) ==
    /\ Cardinality(setA) = Cardinality(setB)
    /\ \A a \in setA : a \in setB

includesEvent(subscription, moduleOrEvent) ==
    \E eventName \in subscription.eventNames :
        \/ eventName = moduleOrEvent
        \/ eventName = moduleOf(moduleOrEvent)
        \/ moduleOf(eventName) = moduleOrEvent

\* A mutation of isSubscribedTo: a global subscription is matched by context like any other.
isSubscribedToByContext(subscription, moduleOrEvent, contextId) ==
    IF ~includesEvent(subscription, moduleOrEvent) THEN FALSE
    ELSE LET topLevelContext == findTopLevelContextId(contextId)
         IN  topLevelContext # null /\ topLevelContext \in subscription.topLevelTraversableIds

\* SubscriptionManager.#isSubscribedTo; contextId is null for an event without context
isSubscribedTo(subscription, moduleOrEvent, contextId) ==
    IF ~includesEvent(subscription, moduleOrEvent) THEN FALSE
    ELSE IF subscription.topLevelTraversableIds = {} THEN TRUE
    ELSE LET topLevelContext == findTopLevelContextId(contextId)
         IN  topLevelContext # null /\ topLevelContext \in subscription.topLevelTraversableIds

getChannelsSubscribedToEvent(eventName, contextId) ==
    {subscriptions[i].channel : i \in {j \in DOMAIN subscriptions :
        isSubscribedTo(subscriptions[j], eventName, contextId)}}

thrown(error, store) == [result |-> error, subscriptions |-> store, newSubscriptions |-> store]

\* A mutation of subscribe: the event names are stored as given, modules not unrolled.
subscribeAsGiven(store, id, eventNames, contextIds, channel) ==
    IF \E contextId \in contextIds : findTopLevelContextId(contextId) = null
    THEN thrown("no such frame", store)
    ELSE LET subscription ==
                 [id |-> id,
                  eventNames |-> eventNames,
                  topLevelTraversableIds |-> {findTopLevelContextId(c) : c \in contextIds},
                  channel |-> channel]
         IN  [result |-> "ok", subscriptions |-> Append(store, subscription),
              newSubscriptions |-> Append(store, subscription)]

\* SubscriptionManager.subscribe, with the uuid it draws
subscribe(store, id, eventNames, contextIds, channel) ==
    IF \E contextId \in contextIds : findTopLevelContextId(contextId) = null
    THEN thrown("no such frame", store)
    ELSE LET subscription ==
                 [id |-> id,
                  eventNames |-> unrollEvents(eventNames),
                  topLevelTraversableIds |-> {findTopLevelContextId(c) : c \in contextIds},
                  channel |-> channel]
         IN  [result |-> "ok", subscriptions |-> Append(store, subscription),
              newSubscriptions |-> Append(store, subscription)]

kept(subscription) ==
    [pushed |-> <<subscription>>, eventsMatched |-> {}, contextsMatched |-> {}]

\* A mutation of the loop body: a global subscription is kept after a global unsubscribe
\* even when none of its events remains.
unsubscribeFromKeepingEmpty(subscription, eventNames, topLevelTraversables, channel) ==
    IF subscription.channel # channel THEN kept(subscription)
    ELSE IF intersection(subscription.eventNames, eventNames) = {} THEN kept(subscription)
    ELSE IF topLevelTraversables = {}
    THEN IF subscription.topLevelTraversableIds # {} THEN kept(subscription)
         ELSE [pushed |-> <<[subscription EXCEPT !.eventNames = @ \ eventNames]>>,
               eventsMatched |-> intersection(eventNames, subscription.eventNames),
               contextsMatched |-> {}]
    ELSE IF subscription.topLevelTraversableIds = {} THEN kept(subscription)
         ELSE LET toRemove == intersection(topLevelTraversables,
                                           subscription.topLevelTraversableIds)
                  eventMap == [eventName \in subscription.eventNames |->
                                  IF eventName \in eventNames
                                  THEN subscription.topLevelTraversableIds \ topLevelTraversables
                                  ELSE subscription.topLevelTraversableIds]
                  remaining == SelectSeq(EventOrder,
                                  LAMBDA e : e \in subscription.eventNames /\ eventMap[e] # {})
              IN  [pushed |-> [k \in DOMAIN remaining |->
                                  [id |-> subscription.id,
                                   channel |-> subscription.channel,
                                   eventNames |-> {remaining[k]},
                                   topLevelTraversableIds |-> eventMap[remaining[k]]]],
                   eventsMatched |-> IF toRemove # {}
                                     THEN intersection(eventNames, subscription.eventNames)
                                     ELSE {},
                   contextsMatched |-> toRemove]

\* A mutation of the loop body: a per-context subscription is not split; it is dropped
\* only when every one of its contexts is unsubscribed, and kept whole otherwise.
unsubscribeFromWholeOnly(subscription, eventNames, topLevelTraversables, channel) ==
    IF subscription.channel # channel THEN kept(subscription)
    ELSE IF intersection(subscription.eventNames, eventNames) = {} THEN kept(subscription)
    ELSE IF topLevelTraversables = {}
    THEN IF subscription.topLevelTraversableIds # {} THEN kept(subscription)
         ELSE LET subscriptionEventNames == subscription.eventNames \ eventNames
              IN  [pushed |-> IF subscriptionEventNames # {}
                              THEN <<[subscription EXCEPT !.eventNames = subscriptionEventNames]>>
                              ELSE <<>>,
                   eventsMatched |-> intersection(eventNames, subscription.eventNames),
                   contextsMatched |-> {}]
    ELSE IF subscription.topLevelTraversableIds = {} THEN kept(subscription)
         ELSE LET toRemove == intersection(topLevelTraversables,
                                           subscription.topLevelTraversableIds)
              IN  [pushed |-> IF subscription.topLevelTraversableIds \ topLevelTraversables = {}
                                 /\ subscription.eventNames \ eventNames = {}
                              THEN <<>>
                              ELSE <<subscription>>,
                   eventsMatched |-> IF toRemove # {}
                                     THEN intersection(eventNames, subscription.eventNames)
                                     ELSE {},
                   contextsMatched |-> toRemove]

\* The body of unsubscribe's loop for one subscription: what it pushes to
\* newSubscriptions and what it adds to eventsMatched and contextsMatched.
unsubscribeFrom(subscription, eventNames, topLevelTraversables, channel) ==
    IF subscription.channel # channel THEN kept(subscription)
    ELSE IF intersection(subscription.eventNames, eventNames) = {} THEN kept(subscription)
    ELSE IF topLevelTraversables = {}
    THEN IF subscription.topLevelTraversableIds # {} THEN kept(subscription)
         ELSE LET subscriptionEventNames == subscription.eventNames \ eventNames
              IN  [pushed |-> IF subscriptionEventNames # {}
                              THEN <<[subscription EXCEPT !.eventNames = subscriptionEventNames]>>
                              ELSE <<>>,
                   eventsMatched |-> intersection(eventNames, subscription.eventNames),
                   contextsMatched |-> {}]
    ELSE IF subscription.topLevelTraversableIds = {} THEN kept(subscription)
         ELSE LET toRemove == intersection(topLevelTraversables,
                                           subscription.topLevelTraversableIds)
                  eventMap == [eventName \in subscription.eventNames |->
                                  IF eventName \in eventNames
                                  THEN subscription.topLevelTraversableIds \ topLevelTraversables
                                  ELSE subscription.topLevelTraversableIds]
                  remaining == SelectSeq(EventOrder,
                                  LAMBDA e : e \in subscription.eventNames /\ eventMap[e] # {})
              IN  [pushed |-> [k \in DOMAIN remaining |->
                                  [id |-> subscription.id,
                                   channel |-> subscription.channel,
                                   eventNames |-> {remaining[k]},
                                   topLevelTraversableIds |-> eventMap[remaining[k]]]],
                   eventsMatched |-> IF toRemove # {}
                                     THEN intersection(eventNames, subscription.eventNames)
                                     ELSE {},
                   contextsMatched |-> toRemove]

\* One turn of unsubscribe's loop put before the turns after it: what the turn
\* pushes to newSubscriptions and adds to eventsMatched and contextsMatched
turn(one, rest) ==
    [newSubscriptions |-> one.pushed \o rest.newSubscriptions,
     eventsMatched |-> one.eventsMatched \cup rest.eventsMatched,
     contextsMatched |-> one.contextsMatched \cup rest.contextsMatched]

\* unsubscribe's loop over the subscriptions
RECURSIVE unsubscribeLoop(_, _, _, _)
unsubscribeLoop(store, eventNames, topLevelTraversables, channel) ==
    IF store = <<>>
    THEN [newSubscriptions |-> <<>>, eventsMatched |-> {}, contextsMatched |-> {}]
    ELSE turn(unsubscribeFrom(Head(store), eventNames, topLevelTraversables, channel),
              unsubscribeLoop(Tail(store), eventNames, topLevelTraversables, channel))

\* A mutation of unsubscribe: newSubscriptions is committed before the checks.
unsubscribeCommitFirst(store, inputEventNames, inputContextIds, channel) ==
    LET eventNames == unrollEvents(inputEventNames)
        topLevelTraversables == {findTopLevelContextId(c) : c \in inputContextIds}
        loop == unsubscribeLoop(store, eventNames, topLevelTraversables, channel)
        failure == \/ ~equal(loop.eventsMatched, eventNames)
                   \/ topLevelTraversables # {} /\ ~equal(loop.contextsMatched, topLevelTraversables)
    IN  IF \E contextId \in inputContextIds : ~findContext(contextId)
        THEN thrown("no such frame", store)
        ELSE [result |-> IF failure THEN "invalid argument" ELSE "ok",
              subscriptions |-> loop.newSubscriptions,
              newSubscriptions |-> loop.newSubscriptions]

\* A mutation of unsubscribe: only the events are checked to have matched.
unsubscribeEventsChecked(store, inputEventNames, inputContextIds, channel) ==
    LET eventNames == unrollEvents(inputEventNames)
        topLevelTraversables == {findTopLevelContextId(c) : c \in inputContextIds}
        loop == unsubscribeLoop(store, eventNames, topLevelTraversables, channel)
    IN  IF \E contextId \in inputContextIds : ~findContext(contextId)
        THEN thrown("no such frame", store)
        ELSE IF ~equal(loop.eventsMatched, eventNames)
        THEN [thrown("invalid argument", store) EXCEPT !.newSubscriptions = loop.newSubscriptions]
        ELSE [result |-> "ok", subscriptions |-> loop.newSubscriptions,
              newSubscriptions |-> loop.newSubscriptions]

\* SubscriptionManager.unsubscribe: how the call ends, the store it leaves
\* and the newSubscriptions it had built
unsubscribe(store, inputEventNames, inputContextIds, channel) ==
    LET eventNames == unrollEvents(inputEventNames)
        topLevelTraversables == {findTopLevelContextId(c) : c \in inputContextIds}
        loop == unsubscribeLoop(store, eventNames, topLevelTraversables, channel)
    IN  IF \E contextId \in inputContextIds : ~findContext(contextId)
        THEN thrown("no such frame", store)
        ELSE IF \E contextId \in inputContextIds : findTopLevelContextId(contextId) = null
        THEN thrown("no such frame", store)
        ELSE IF ~equal(loop.eventsMatched, eventNames)
        THEN [thrown("invalid argument", store) EXCEPT !.newSubscriptions = loop.newSubscriptions]
        ELSE IF topLevelTraversables # {} /\ ~equal(loop.contextsMatched, topLevelTraversables)
        THEN [thrown("invalid argument", store) EXCEPT !.newSubscriptions = loop.newSubscriptions]
        ELSE [result |-> "ok", subscriptions |-> loop.newSubscriptions,
              newSubscriptions |-> loop.newSubscriptions]

sameArguments(call, eventNames, contextIds, channel) ==
    /\ call.eventNames = eventNames
    /\ call.contextIds = contextIds
    /\ call.channel = channel

\* session.subscribe
SubscribeCall(eventNames, contextIds, channel) ==
    \E call \in {subscribe(subscriptions, nextSubscriptionId, eventNames, contextIds, channel)} :
        /\ nextSubscriptionId <= MaxSubscriptions
        /\ nextSubscriptionId' = nextSubscriptionId + 1
        /\ subscriptions' = call.subscriptions
        /\ lastCall' = [op |-> "subscribe", result |-> call.result]
        /\ pair' = IF call.result = "ok"
                   THEN <<[eventNames |-> eventNames, contextIds |-> contextIds,
                           channel |-> channel, before |-> subscriptions,
                           unsubscribed |-> FALSE]>>
                   ELSE <<>>
        /\ UNCHANGED <<contexts, netVars, queueVars, wsVars, scriptVars, sessionVars, targetVars, attachVars, channelVars, conversionVars, phaseVars>>

Subscribe ==
    \E eventNames \in EventNameInputs, contextIds \in ContextInputs, channel \in Channels :
        SubscribeCall(eventNames, contextIds, channel)

\* session.unsubscribe (by attributes)
UnsubscribeCall(eventNames, contextIds, channel) ==
    \E call \in {unsubscribe(subscriptions, eventNames, contextIds, channel)} :
        /\ subscriptions' = call.subscriptions
        /\ lastCall' = [op |-> "unsubscribe", result |-> call.result]
        /\ pair' = IF /\ pair # <<>>
                      /\ ~pair[1].unsubscribed
                      /\ sameArguments(pair[1], eventNames, contextIds, channel)
                   THEN <<[pair[1] EXCEPT !.unsubscribed = TRUE]>>
                   ELSE <<>>
        /\ UNCHANGED <<contexts, nextSubscriptionId, netVars, queueVars, wsVars, scriptVars, sessionVars, targetVars, attachVars, channelVars, conversionVars, phaseVars>>

Unsubscribe ==
    \E eventNames \in EventNameInputs, contextIds \in ContextInputs, channel \in Channels :
        UnsubscribeCall(eventNames, contextIds, channel)

\* BrowsingContextStorage.addContext: #contexts.set(context.id, context)
addContext(store, id, parentId) ==
    [c \in DOMAIN store \cup {id} |-> IF c = id THEN parentId ELSE store[c]]

\* BrowsingContextStorage.deleteContextById: #contexts.delete(id)
deleteContextById(store, id) == [c \in DOMAIN store \ {id} |-> store[c]]

\* The children set of a context
directChildren(store, id) == {c \in DOMAIN store : store[c] = id}

\* A context with the contexts below it
RECURSIVE subtree(_, _)
subtree(store, id) == {id} \cup UNION {subtree(store, c) : c \in directChildren(store, id)}

\* A mutation of dispose: the children of the destroyed context stay in the storage.
disposeKeepingChildren(store, id) == deleteContextById(store, id)

\* The destruction of a context (on detachedFromTarget) cascades to its children:
\* deleteContextById of every context of its subtree.
dispose(store, id) == [c \in DOMAIN store \ subtree(store, id) |-> store[c]]

\* A context is created (on Target.attachedToTarget, or for a frame attached to a
\* known parent) unless its id is known already.
AddContext ==
    \E id \in DOMAIN ContextTree, parentId \in DOMAIN ContextTree \cup {null} :
        /\ ~findContext(id)
        /\ parentId = null \/ findContext(parentId)
        /\ contexts' = addContext(contexts, id, parentId)
        /\ UNCHANGED <<subscriptions, nextSubscriptionId, lastCall, pair, netVars, queueVars, wsVars, scriptVars, sessionVars, targetVars, attachVars, channelVars, conversionVars, phaseVars>>

\* A known context is destroyed.
DeleteContext ==
    \E id \in DOMAIN ContextTree :
        /\ findContext(id)
        /\ contexts' = dispose(contexts, id)
        /\ UNCHANGED <<subscriptions, nextSubscriptionId, lastCall, pair, netVars, queueVars, wsVars, scriptVars, sessionVars, targetVars, attachVars, channelVars, conversionVars, phaseVars>>

NextCtx ==
    \/ AddContext
    \/ DeleteContext

InitSub ==
    /\ contexts = ContextTree
    /\ subscriptions = <<>>
    /\ nextSubscriptionId = 1
    /\ lastCall = [op |-> "none", result |-> "ok"]
    /\ pair = <<>>

NextSub ==
    \/ Subscribe
    \/ Unsubscribe

(***************************************************************************)
(* Claims about the subscription manager (checked under SpecSub).          *)
(***************************************************************************)
\* The unsubscribe call with the arguments of the subscribe call before it has been made.
pairMade == pair # <<>> /\ pair[1].unsubscribed

\* A subscription of the store is on the channel, of the kind (global or
\* per context) of the context ids, and has one of the events.
overlaps(store, eventNames, contextIds, channel) ==
    \E i \in DOMAIN store :
        /\ store[i].channel = channel
        /\ (store[i].topLevelTraversableIds = {}) = (contextIds = {})
        /\ store[i].eventNames \cap unrollEvents(eventNames) # {}

\* C6 (as stated): after a subscribe call and the unsubscribe call with the
\* same arguments, made on any store, the store is the one before the pair.
C6_PairRestoresStore == pairMade => subscriptions = pair[1].before

\* C6 (amended): the pair restores the store if the context ids are known
\* and, before the pair, no subscription of the channel and of the same kind
\* (global, or per context) had one of the events.
C6_PairRestoresDisjointStore ==
    ( /\ pairMade
      /\ \A contextId \in pair[1].contextIds : findContext(contextId)
      /\ ~overlaps(pair[1].before, pair[1].eventNames, pair[1].contextIds, pair[1].channel) )
    => subscriptions = pair[1].before

\* C6 witness: a pair made for a context on a store that holds, for the same
\* channel and top-level context, subscriptions to other events only.
C6_Witness ==
    /\ pairMade
    /\ lastCall.result = "ok"
    /\ pair[1].contextIds = {"grandchild1"}
    /\ \E i \in DOMAIN pair[1].before :
           /\ pair[1].before[i].channel = pair[1].channel
           /\ "top1" \in pair[1].before[i].topLevelTraversableIds
    /\ ~overlaps(pair[1].before, pair[1].eventNames, pair[1].contextIds, pair[1].channel)
    /\ subscriptions = pair[1].before

\* C7: unsubscribe is atomic: a call that fails leaves the store as it was.
C7_FailedUnsubscribeChangesNothing ==
    [][(lastCall'.op = "unsubscribe" /\ lastCall'.result # "ok")
           => subscriptions' = subscriptions]_vars

\* C7 witness: an unsubscribe call has failed on a store of which it had
\* matched a part, so that the newSubscriptions it built differ from the store.
C7_Witness ==
    /\ lastCall = [op |-> "unsubscribe", result |-> "invalid argument"]
    /\ \E eventNames \in EventNameInputs, contextIds \in ContextInputs, channel \in Channels :
           LET call == unsubscribe(subscriptions, eventNames, contextIds, channel)
           IN  /\ call.result = "invalid argument"
               /\ call.newSubscriptions # subscriptions

\* A requested event or top-level context is in no subscription of the channel.
unmatched(store, eventNames, contextIds, channel) ==
    LET onChannel == {i \in DOMAIN store : store[i].channel = channel}
    IN  \/ \E e \in unrollEvents(eventNames) :
               \A i \in onChannel : e \notin store[i].eventNames
        \/ \E c \in contextIds :
               \A i \in onChannel :
                   findTopLevelContextId(c) \notin store[i].topLevelTraversableIds

\* C8: an unsubscribe call (its context ids being known contexts) fails with
\* "invalid argument" if a requested event, or the top-level context of a
\* requested context, matches no subscription of the channel; stated of
\* every call that can be made on the store of a reachable state.
C8_UnmatchedIsInvalidArgument ==
    \A eventNames \in EventNameInputs, contextIds \in ContextInputs, channel \in Channels :
        ( /\ \A c \in contextIds : findContext(c)
          /\ unmatched(subscriptions, eventNames, contextIds, channel) )
        => unsubscribe(subscriptions, eventNames, contextIds, channel).result = "invalid argument"

\* C8 witness: an unsubscribe call has failed with "invalid argument" on a
\* store in which one of its two contexts is subscribed and the other is not.
C8_Witness ==
    /\ lastCall = [op |-> "unsubscribe", result |-> "invalid argument"]
    /\ \E channel \in Channels :
           /\ unmatched(subscriptions, {"network"}, {"top1", "top2"}, channel)
           /\ \E i \in DOMAIN subscriptions :
                  /\ subscriptions[i].channel = channel
                  /\ subscriptions[i].topLevelTraversableIds = {"top1"}
                  /\ subscriptions[i].eventNames = NetworkEventNames

\* C9: a global subscription (one with no top-level contexts) matches every
\* one of its events whatever the context the event is tagged with, also an
\* unknown context or none.
C9_GlobalMatchesEveryContext ==
    \A i \in DOMAIN subscriptions :
        subscriptions[i].topLevelTraversableIds = {} =>
            \A e \in subscriptions[i].eventNames, c \in ContextIds \cup {null} :
                /\ isSubscribedTo(subscriptions[i], e, c)
                /\ subscriptions[i].channel \in getChannelsSubscribedToEvent(e, c)

\* C9 witness: the store has a global subscription and one for a context.
C9_Witness ==
    /\ Len(subscriptions) = 2
    /\ subscriptions[1].topLevelTraversableIds = {"top1"}
    /\ subscriptions[2].topLevelTraversableIds = {}
    /\ subscriptions[2].channel # subscriptions[1].channel

\* The contexts from c up to its top-level context
RECURSIVE ancestorsOrSelf(_)
ancestorsOrSelf(c) ==
    IF contexts[c] = null THEN {c} ELSE {c} \cup ancestorsOrSelf(contexts[c])

\* C10: a subscription for the top-level context t matches its events
\* tagged with any context c, at any depth, whose top-level context is t.
C10_TopLevelMatchesDescendants ==
    \A i \in DOMAIN subscriptions :
        \A t \in subscriptions[i].topLevelTraversableIds \cap DOMAIN contexts,
           c \in DOMAIN contexts :
            (contexts[t] = null /\ t \in ancestorsOrSelf(c)) =>
                \A e \in subscriptions[i].eventNames :
                    isSubscribedTo(subscriptions[i], e, c)

\* C10 witness: a subscription made for the top-level contexts top1 and top2;
\* top1 has a child and a grandchild.
C10_Witness ==
    /\ Len(subscriptions) = 1
    /\ subscriptions[1].topLevelTraversableIds = {"top1", "top2"}
    /\ "top1" \in ancestorsOrSelf("grandchild1")
    /\ lastCall = [op |-> "subscribe", result |-> "ok"]

\* C11: after subscribing a channel to the module network globally and then
\* unsubscribing it, globally, from network.beforeRequestSent only, the
\* unsubscribe call succeeds and the channel still receives every other
\* network event, whatever the context of the event; stated of the two calls
\* made on the store of any reachable state.
C11_OtherNetworkEventsStillDelivered ==
    \A channel \in Channels :
        \E subscribed \in {subscribe(subscriptions, nextSubscriptionId,
                                     {"network"}, {}, channel).subscriptions} :
        \E call \in {unsubscribe(subscribed, {"network.beforeRequestSent"}, {}, channel)} :
            /\ call.result = "ok"
            /\ \A e \in NetworkEventNames \ {"network.beforeRequestSent"},
                  c \in ContextIds \cup {null} :
                   \E i \in DOMAIN call.subscriptions :
                       /\ call.subscriptions[i].channel = channel
                       /\ isSubscribedTo(call.subscriptions[i], e, c)

\* C11 witness: the two calls have been made on the empty store, and the
\* store holds the subscription to the four other network events.
C11_Witness ==
    /\ lastCall = [op |-> "unsubscribe", result |-> "ok"]
    /\ Len(subscriptions) = 1
    /\ subscriptions[1].eventNames = NetworkEventNames \ {"network.beforeRequestSent"}
    /\ subscriptions[1].topLevelTraversableIds = {}
    /\ \A e \in subscriptions[1].eventNames :
           subscriptions[1].channel \in getChannelsSubscribedToEvent(e, "top1")

C17_SubscribeResolvesOrFails ==
    (lastCall = [op |-> "subscribe", result |-> "ok"] /\ pair # <<>>) =>
        LET subscription == subscriptions[Len(subscriptions)]
        IN  /\ \A c \in pair[1].contextIds : findContext(c)
            /\ \A t \in subscription.topLevelTraversableIds :
                   findContext(t) /\ contexts[t] = null
            /\ \A c \in pair[1].contextIds :
                   \E t \in subscription.topLevelTraversableIds : t \in ancestorsOrSelf(c)

\* C20: in every state reachable by adding and deleting contexts,
\* findTopLevelContextId(x) of a known context x is the id of a known context whose
\* parent is null, and applying findTopLevelContextId to it again returns it.
C20_TopLevelTotalAndIdempotent ==
    \A x \in DOMAIN contexts :
        \E t \in {findTopLevelContextId(x)} :
            /\ findContext(t)
            /\ contexts[t] = null
            /\ findTopLevelContextId(t) = t

\* C20 witness: top1 was destroyed with its subtree and child1 was created again
\* below top2, with a grandchild; both resolve to top2.
C20_Witness ==
    /\ ~findContext("top1")
    /\ findContext("child1") /\ contexts["child1"] = "top2"
    /\ findContext("grandchild1") /\ contexts["grandchild1"] = "child1"
    /\ findTopLevelContextId("grandchild1") = "top2"
    /\ findTopLevelContextId(findTopLevelContextId("grandchild1")) = "top2"

\* The contexts an unsubscribe call with the given context ids is about: those whose
\* top-level context is the top-level context of one of the ids; every context, an
\* unknown one and none for an empty list.
contextsUnder(contextIds) ==
    IF contextIds = {}
    THEN ContextIds \cup {null}
    ELSE {c \in DOMAIN contexts :
             findTopLevelContextId(c) \in {findTopLevelContextId(x) : x \in contextIds}}

\* The subscription reports the channel as subscribed to the event for the context
\* (#isSubscribedTo, as getChannelsSubscribedToEvent applies it to each subscription)
reports(subscription, channel, moduleOrEvent, contextId) ==
    /\ subscription.channel = channel
    /\ isSubscribedTo(subscription, moduleOrEvent, contextId)

\* The subscription is of the kind an unsubscribe call with these context ids works on:
\* a global one for an empty list, a per-context one otherwise.
sameKind(subscription, contextIds) ==
    (subscription.topLevelTraversableIds = {}) = (contextIds = {})

\* C29 as stated: whichever unsubscribe call succeeds on the store of a reachable state,
\* the store it leaves reports the channel as subscribed to none of the events of the call
\* (as given and unrolled) for any context the call is about.
C29_UnsubscribedIsNotReported ==
    \A eventNames \in EventNameInputs, contextIds \in ContextInputs, channel \in Channels :
        \E call \in {unsubscribe(subscriptions, eventNames, contextIds, channel)} :
            call.result = "ok" =>
                \A e \in eventNames \cup unrollEvents(eventNames),
                   c \in contextsUnder(contextIds) :
                    \A i \in DOMAIN call.subscriptions :
                        ~reports(call.subscriptions[i], channel, e, c)

\* C29 amended: after a successful unsubscribe call no subscription of the kind the call
\* works on reports the channel as subscribed to an event of the call for a context the
\* call is about; the channel is still so reported exactly when a subscription of the
\* other kind (a global one for a call with contexts, a per-context one for a call
\* without) reported it before the call.
C29_UnsubscribedOnlyByOtherKind ==
    \A eventNames \in EventNameInputs, contextIds \in ContextInputs, channel \in Channels :
        \E call \in {unsubscribe(subscriptions, eventNames, contextIds, channel)} :
            call.result = "ok" =>
                \E after \in {call.subscriptions},
                   events \in {eventNames \cup unrollEvents(eventNames)},
                   under \in {contextsUnder(contextIds)} :
                    \A e \in events, c \in under :
                        /\ \A i \in DOMAIN after :
                               sameKind(after[i], contextIds) => ~reports(after[i], channel, e, c)
                        /\ (\E i \in DOMAIN after : reports(after[i], channel, e, c))
                               <=> \E i \in DOMAIN subscriptions :
                                       /\ ~sameKind(subscriptions[i], contextIds)
                                       /\ reports(subscriptions[i], channel, e, c)

\* An unsubscribe call with contexts has succeeded and left a global subscription of the
\* channel, through which the event is still reported for the context.
C29_Witness ==
    /\ lastCall = [op |-> "unsubscribe", result |-> "ok"]
    /\ Len(subscriptions) = 1
    /\ subscriptions[1].topLevelTraversableIds = {}
    /\ nextSubscriptionId = 3
    /\ "network.beforeRequestSent" \in subscriptions[1].eventNames
    /\ subscriptions[1].channel \in
           getChannelsSubscribedToEvent("network.beforeRequestSent", "grandchild1")

(***************************************************************************)
(* SharedIdParser: getSharedId and parseSharedId.  A string is a sequence  *)
(* of tokens: single characters, and the word "_element_" (the             *)
(* SHARED_ID_DIVIDER), none of whose characters is a token of its own.     *)
(***************************************************************************)
MaxIdLen == 3   \* tokens of a frame id or document id

IdTokens == {".", "d", "x", "1", "_element_"}
BackendNodeIds == {7, 42}
SHARED_ID_DIVIDER == <<"_element_">>

\* The strings of at most n tokens
StringsUpTo(n) == UNION {[1..k -> IdTokens] : k \in 0..n}
Ids == StringsUpTo(MaxIdLen)

Digits == <<"0", "1", "2", "3", "4", "5", "6", "7", "8", "9">>
isDigit(t) == \E i \in DOMAIN Digits : Digits[i] = t
digitValue(t) == (CHOOSE i \in DOMAIN Digits : Digits[i] = t) - 1

\* `${n}` of a non-negative integer
RECURSIVE numberToString(_)
numberToString(n) ==
    IF n < 10 THEN <<Digits[n + 1]>> ELSE numberToString(n \div 10) \o <<Digits[(n % 10) + 1]>>

NaN == -1

\* The longest prefix of s made of digits (matched by [0-9]*; read by parseInt)
RECURSIVE digitPrefix(_)
digitPrefix(s) ==
    IF s # <<>> /\ isDigit(Head(s)) THEN <<Head(s)>> \o digitPrefix(Tail(s)) ELSE <<>>

RECURSIVE digitsToNumber(_)
digitsToNumber(s) ==
    IF s = <<>> THEN 0 ELSE 10 * digitsToNumber(SubSeq(s, 1, Len(s) - 1)) + digitValue(s[Len(s)])

\* parseInt(s): the number written by the digits s starts with, NaN if it starts with none
parseInt(s) == IF digitPrefix(s) = <<>> THEN NaN ELSE digitsToNumber(digitPrefix(s))

\* The places of s where the literal p starts
matchesOf(s, p) == {i \in 1..(Len(s) - Len(p) + 1) : SubSeq(s, i, i + Len(p) - 1) = p}

Max(S) == CHOOSE m \in S : \A n \in S : n <= m
Min(S) == CHOOSE m \in S : \A n \in S : m <= n

undefined == <<"undefined">>
parsedId(frameId, documentId, backendNodeId) ==
    [frameId |-> frameId, documentId |-> documentId, backendNodeId |-> backendNodeId]

\* SharedIdParser.getSharedId: `f.${frameId}.d.${documentId}.e.${backendNodeId}`
getSharedId(frameId, documentId, backendNodeId) ==
    <<"f", ".">> \o frameId \o <<".", "d", ".">> \o documentId \o <<".", "e", ".">>
        \o numberToString(backendNodeId)

\* SharedIdParser.#parseLegacySharedId: the match of /(.*)_element_(.*)/ takes the
\* last divider of the string, the first group being greedy.
parseLegacySharedId(sharedId) ==
    IF matchesOf(sharedId, SHARED_ID_DIVIDER) = {} THEN [matched |-> FALSE]
    ELSE LET at == Max(matchesOf(sharedId, SHARED_ID_DIVIDER))
             elementId == SubSeq(sharedId, at + 1, Len(sharedId))
         IN  IF parseInt(elementId) = NaN THEN [matched |-> FALSE]
             ELSE [matched |-> TRUE,
                   documentId |-> SubSeq(sharedId, 1, at - 1),
                   backendNodeId |-> parseInt(elementId)]

\* The places where the groups of /f\.(.*)\.d\.(.*)\.e\.([0-9]*)/ match: the match
\* starts at the first "f." after which the rest can match, the first group ends at
\* the last ".d." followed by an ".e.", the second at the last ".e." after it.
newMatchStarts(sharedId) ==
    {i \in matchesOf(sharedId, <<"f", ".">>) :
        \E j \in matchesOf(sharedId, <<".", "d", ".">>) :
            /\ j >= i + 2
            /\ \E k \in matchesOf(sharedId, <<".", "e", ".">>) : k >= j + 3}

\* SharedIdParser.parseSharedId
parseSharedId(sharedId) ==
    IF parseLegacySharedId(sharedId).matched
    THEN parsedId(undefined, parseLegacySharedId(sharedId).documentId,
                  parseLegacySharedId(sharedId).backendNodeId)
    ELSE IF newMatchStarts(sharedId) = {} THEN null
    ELSE LET i == Min(newMatchStarts(sharedId))
             j == Max({j \in matchesOf(sharedId, <<".", "d", ".">>) :
                        /\ j >= i + 2
                        /\ \E k \in matchesOf(sharedId, <<".", "e", ".">>) : k >= j + 3})
             k == Max({k \in matchesOf(sharedId, <<".", "e", ".">>) : k >= j + 3})
             elementId == digitPrefix(SubSeq(sharedId, k + 3, Len(sharedId)))
         IN  IF parseInt(elementId) = NaN THEN null
             ELSE parsedId(SubSeq(sharedId, i + 2, j - 1), SubSeq(sharedId, j + 3, k - 1),
                           parseInt(elementId))

\* The arguments of a getSharedId call that has not been made yet
sharedIdArguments(frameId, documentId, backendNodeId) ==
    [pc |-> "arguments", frameId |-> frameId, documentId |-> documentId,
     backendNodeId |-> backendNodeId, sharedId |-> <<>>, parsed |-> null]

\* getSharedId is called with the arguments
GetSharedId ==
    /\ sharedIdCall.pc = "arguments"
    /\ sharedIdCall' = [sharedIdCall EXCEPT
           !.pc = "generated",
           !.sharedId = getSharedId(sharedIdCall.frameId, sharedIdCall.documentId,
                                    sharedIdCall.backendNodeId)]
    /\ UNCHANGED <<netVars, queueVars, wsVars, subVars, sessionVars, targetVars, attachVars, channelVars, conversionVars, phaseVars>>

\* parseSharedId is called with the shared id that getSharedId returned
ParseSharedId ==
    /\ sharedIdCall.pc = "generated"
    /\ sharedIdCall' = [sharedIdCall EXCEPT
           !.pc = "parsed", !.parsed = parseSharedId(sharedIdCall.sharedId)]
    /\ UNCHANGED <<netVars, queueVars, wsVars, subVars, sessionVars, targetVars, attachVars, channelVars, conversionVars, phaseVars>>

\* No call of the SharedIdParser is followed: the arguments of its test
InitScript == sharedIdCall = sharedIdArguments(<<"x">>, <<"x">>, 42)

\* Any frame id, document id and backend node id of the bounded sets
InitSharedId ==
    sharedIdCall \in {sharedIdArguments(frameId, documentId, backendNodeId) :
                         frameId \in Ids, documentId \in Ids, backendNodeId \in BackendNodeIds}

NextSharedId ==
    \/ GetSharedId
    \/ ParseSharedId

(***************************************************************************)
(* Claims about the SharedIdParser (checked under SpecSharedId).           *)
(***************************************************************************)
\* C21: the sharedId format round-trips: for every frameId, documentId and
\* backendNodeId, parseSharedId(getSharedId(frameId, documentId, backendNodeId))
\* returns exactly {frameId, documentId, backendNodeId}.
C21_SharedIdRoundTrips ==
    sharedIdCall.pc = "parsed" =>
        sharedIdCall.parsed = parsedId(sharedIdCall.frameId, sharedIdCall.documentId,
                                       sharedIdCall.backendNodeId)

(***************************************************************************)
(* WebSocket connections to /session/<id>: the session created by POST     *)
(* /session, its browserInstancePromise, and the promises #onWsRequest     *)
(* and the 'close' and 'message' handlers await.  A step is one task of    *)
(* the event loop with the promise reactions it makes runnable.            *)
(***************************************************************************)
MaxConnections == 3   \* WebSocket connections accepted for the session
MaxFrames == 1        \* command frames received on each of them

\* The connection accepted by #onWsRequest: launch is where the chain
\* #closeBrowserInstanceIfLaunched(session).then(launch).catch(close) stands, which is
\* the state of the promise the connection stored in the session.
NewConnection == [state |-> "open", launch |-> "awaitClose", frames |-> <<>>]

\* The state of the promise stored for connection k
promiseState(connections, k) ==
    IF connections[k].launch = "launched" THEN "resolved"
    ELSE IF connections[k].launch = "failed" THEN "rejected"
    ELSE "pending"

\* A function suspended at `await session.browserInstancePromise`: the promise it read
\* (0: the function read undefined and awaits nothing), the function, its connection and,
\* for a 'message' handler, its frame.
Reaction(on, kind, of, frame) == [on |-> on, kind |-> kind, of |-> of, frame |-> frame]

\* The session and the connections as the operators below transform them
sessionState ==
    [promise |-> browserInstancePromise,
     connections |-> sessionConnections,
     reactions |-> promiseReactions,
     closed |-> closedInstances]

\* connection.close(500, ..) on the connection k
closeConnection(st, k) ==
    [st EXCEPT !.connections[k].state = IF @ = "open" THEN "closing" ELSE @]

\* #closeBrowserInstanceIfLaunched after its await returned the instance of connection j:
\* session.browserInstancePromise = undefined; void browserInstance.close()
closeBrowserInstanceIfLaunched(st, j) ==
    [st EXCEPT !.promise = 0, !.closed = @ \cup {j}]

\* The function that awaited goes on once the promise it awaits is settled.
resume(st, w) ==
    LET settledAs == IF w.on = 0 THEN "none" ELSE promiseState(st.connections, w.on)
        afterClose == IF settledAs = "resolved"
                      THEN closeBrowserInstanceIfLaunched(st, w.on)
                      ELSE st
    IN  IF w.kind = "close"
        THEN afterClose   \* on a rejected promise the handler throws
        ELSE IF w.kind = "connect"
        THEN IF settledAs = "rejected"
             \* .catch: the connection is closed and the stored promise rejects
             THEN closeConnection([st EXCEPT !.connections[w.of].launch = "failed"], w.of)
             \* .then: #launchBrowserInstance
             ELSE [afterClose EXCEPT !.connections[w.of].launch = "launching"]
        \* the 'message' handler: the command is sent to the mapper of the instance
        ELSE [st EXCEPT !.connections[w.of].frames[w.frame] =
                 IF settledAs = "resolved"
                 THEN [@ EXCEPT !.pc = "awaitMapper", !.forwarded = TRUE]
                 ELSE [@ EXCEPT !.pc = "threw"]]

runnable(st) ==
    {i \in DOMAIN st.reactions :
        \/ st.reactions[i].on = 0
        \/ promiseState(st.connections, st.reactions[i].on) # "pending"}

without(seq, i) == SubSeq(seq, 1, i - 1) \o SubSeq(seq, i + 1, Len(seq))

\* The promise reactions that can run do so, in the order of their awaits, before the
\* next task.
RECURSIVE runMicrotasks(_)
runMicrotasks(st) ==
    IF runnable(st) = {}
    THEN st
    ELSE LET i == CHOOSE i \in runnable(st) : \A j \in runnable(st) : i <= j
         IN  runMicrotasks(resume([st EXCEPT !.reactions = without(@, i)], st.reactions[i]))

\* #onWsRequest for /session/<id>: #closeBrowserInstanceIfLaunched(session) runs up to
\* its await of the promise it finds, then the promise of the new chain is stored.
onWsRequest(st) ==
    LET k == Len(st.connections) + 1
    IN  runMicrotasks([st EXCEPT !.connections = Append(@, NewConnection),
                                 !.reactions = Append(@, Reaction(st.promise, "connect", k, 0)),
                                 !.promise = k])

\* The 'close' handler of connection k: await #closeBrowserInstanceIfLaunched(session)
onClose(st, k) ==
    runMicrotasks([st EXCEPT !.connections[k].state = "closed",
                             !.reactions = Append(@, Reaction(st.promise, "close", k, 0))])

\* The 'message' handler of connection k for a command other than session.new
onSessionMessage(st, k) ==
    LET frame == onMessage("other", "defined",
                           IF st.promise = 0 THEN "undefined" ELSE "launching")
        i == Len(st.connections[k].frames) + 1
    IN  runMicrotasks([st EXCEPT !.connections[k].frames = Append(@, frame),
                                 !.reactions = IF frame.pc = "awaitBrowser"
                                               THEN Append(@, Reaction(st.promise, "message", k, i))
                                               ELSE @])

\* BrowserInstance.run of the launch of connection k ends: the stored promise settles;
\* on failure .catch closes the connection.
launchBrowserInstance(st, k, ok) ==
    runMicrotasks(IF ok
                  THEN [st EXCEPT !.connections[k].launch = "launched"]
                  ELSE closeConnection([st EXCEPT !.connections[k].launch = "failed"], k))

commitSession(st) ==
    /\ browserInstancePromise' = st.promise
    /\ sessionConnections' = st.connections
    /\ promiseReactions' = st.reactions
    /\ closedInstances' = st.closed
    /\ UNCHANGED <<netVars, queueVars, wsVars, subVars, scriptVars, targetVars, attachVars, channelVars, conversionVars, phaseVars>>

\* A WebSocket connection to /session/<id> is accepted.
SessionConnect ==
    /\ Len(sessionConnections) < MaxConnections
    /\ commitSession(onWsRequest(sessionState))

\* The browser launch of a connection ends.
SessionLaunchSettled ==
    \E k \in DOMAIN sessionConnections, ok \in BOOLEAN :
        /\ sessionConnections[k].launch = "launching"
        /\ commitSession(launchBrowserInstance(sessionState, k, ok))

\* A command frame arrives on an open connection.
SessionMessage ==
    \E k \in DOMAIN sessionConnections :
        /\ sessionConnections[k].state = "open"
        /\ Len(sessionConnections[k].frames) < MaxFrames
        /\ commitSession(onSessionMessage(sessionState, k))

\* A connection is closed: the peer disconnects, or the close the server asked for ends.
SessionClose ==
    \E k \in DOMAIN sessionConnections :
        /\ sessionConnections[k].state \in {"open", "closing"}
        /\ commitSession(onClose(sessionState, k))

InitSession ==
    /\ browserInstancePromise = 0
    /\ sessionConnections = <<>>
    /\ promiseReactions = <<>>
    /\ closedInstances = {}

NextSession ==
    \/ SessionConnect
    \/ SessionLaunchSettled
    \/ SessionMessage
    \/ SessionClose

(***************************************************************************)
(* Claims about the connections of a session (checked under SpecSession).  *)
(***************************************************************************)
\* C30: while the most recent connection to /session/<id> is open and its browser launch
\* has succeeded, session.browserInstancePromise is the promise of the instance launched
\* for that connection, and no command received on the connection was rejected.
C30_NewestConnectionHoldsInstance ==
    \A k \in DOMAIN sessionConnections :
        (/\ k = Len(sessionConnections)
         /\ sessionConnections[k].state = "open"
         /\ sessionConnections[k].launch = "launched")
        => /\ browserInstancePromise = k
           /\ \A i \in DOMAIN sessionConnections[k].frames :
                  sessionConnections[k].frames[i].error = "none"

(***************************************************************************)
(* CdpTarget initialisation and preload scripts (cdpTarget.ts,             *)
(* ScriptProcessor.ts, PreloadScript, PreloadScriptStorage).               *)
(*                                                                         *)
(* Every top-level browsing context has one CDP target, named after it;    *)
(* "child1" is a frame of "top1" and exists as soon as "top1" does.  A     *)
(* context id whose target has not been created yet is an unknown context. *)
(***************************************************************************)
Targets == {"top1", "top2"}

MaxScripts == 1   \* preload scripts added (each takes a fresh id)

PreloadContextIds == Targets \cup {"child1"}

\* BrowsingContextImpl.parentId of the contexts of this subsystem.
parentId(contextId) == IF contextId = "child1" THEN "top1" ELSE null

\* BrowsingContextImpl.isTopLevelContext.
isTopLevelContext(contextId) == parentId(contextId) = null

\* BrowsingContextImpl.cdpTarget: a frame lives in its top-level target.
cdpTargetOf(contextId) ==
    IF isTopLevelContext(contextId) THEN contextId ELSE parentId(contextId)

\* BrowsingContextStorage.hasContext.
hasContext(targets, contextId) == targets[cdpTargetOf(contextId)].pc # "absent"

\* BrowsingContextStorage.getTopLevelContexts.
getTopLevelContexts(targets) ==
    {c \in PreloadContextIds : hasContext(targets, c) /\ isTopLevelContext(c)}

\* The commands #unblock awaits one after the other, after the optional
\* enabling of the Network domain.
UnblockCommands ==
    <<"Runtime.enable", "Page.enable", "Page.setLifecycleEventsEnabled",
      "Target.setAutoAttach", "Runtime.runIfWaitingForDebugger">>

\* The outcomes of a CDP command: it succeeds, fails because the target or
\* the session is closed, or fails for another reason.
CdpOutcomes == {"ok", "closeError", "otherError"}

\* A target that is not created yet.  pc is the position of #unblock, sent
\* the commands it has issued (the last one is awaited while pc is
\* "awaiting"), error the failure that rejected it.
NoCdpTarget ==
    [pc |-> "absent", networkDomainActivated |-> FALSE, sent |-> <<>>,
     error |-> "none"]

\* CdpTarget.enableNetworkDomain: creating the NetworkProcessor is one
\* awaited step on the target's CDP client.
enableNetworkDomain(target) ==
    IF ~target.networkDomainActivated
    THEN [target EXCEPT !.networkDomainActivated = TRUE,
                        !.sent = Append(@, "Network.enable")]
    ELSE target

\* CdpTarget.#unblock up to its first await; networkEnabled is
\* EventManager.isNetworkDomainEnabled at that moment.
unblock(target, networkEnabled) ==
    IF networkEnabled
    THEN enableNetworkDomain([target EXCEPT !.pc = "awaiting"])
    ELSE [target EXCEPT !.pc = "awaiting",
                        !.sent = Append(@, UnblockCommands[1])]

\* The number of UnblockCommands a target has issued.
unblockIssued(target) ==
    Len(target.sent) - (IF target.networkDomainActivated THEN 1 ELSE 0)

\* CdpTarget.#unblock resumed by the outcome of the awaited command: a
\* failure of any kind rejects the promise of #unblock, which create() has
\* not awaited; success issues the next command, and after the last one
\* resolves the targetUnblocked deferred.
unblockResumed(target, outcome) ==
    IF outcome # "ok"
    THEN [target EXCEPT !.pc = "rejected", !.error = outcome]
    ELSE IF unblockIssued(target) = Len(UnblockCommands)
         THEN [target EXCEPT !.pc = "unblocked"]
         ELSE [target EXCEPT
                 !.sent = Append(@, UnblockCommands[unblockIssued(target) + 1])]

\* new PreloadScript(params): contexts is params.contexts, cdpPreloadScripts
\* the targets the script is installed in, in the order of installation.
PreloadScript(params) ==
    [contexts |-> params, cdpPreloadScripts |-> <<>>, targetIds |-> {}]

\* PreloadScriptStorage.find({id}).
findScripts(scripts, id) == {s \in DOMAIN scripts : s = id}

\* PreloadScriptStorage.add.
addScript(scripts, id, script) == (id :> script) @@ scripts

\* PreloadScriptStorage.remove({id}): deletes every entry find({id}) returns.
removeScripts(scripts, id) ==
    [s \in DOMAIN scripts \ findScripts(scripts, id) |-> scripts[s]]

\* PreloadScriptStorage.onCdpTargetCreated: the global scripts (no contexts,
\* no user contexts) get the new target among their targetIds.
onCdpTargetCreated(scripts, targetId) ==
    [s \in DOMAIN scripts |->
        IF ~scripts[s].contexts.given
        THEN [scripts[s] EXCEPT !.targetIds = @ \cup {targetId}]
        ELSE scripts[s]]

\* params.contexts of script.addPreloadScript: omitted, or a list of ids.
ContextsParams ==
    {[given |-> FALSE, ids |-> <<>>]}
    \cup {[given |-> TRUE, ids |-> ids] :
            ids \in {<<>>, <<"top1">>, <<"top2">>, <<"child1">>,
                     <<"top1", "top2">>, <<"top1", "child1">>,
                     <<"top2", "child1">>}}

\* The check of one context id in addPreloadScript: getContext throws for an
\* unknown id, and a context that is not top-level is an invalid argument.
contextError(targets, contextId) ==
    IF ~hasContext(targets, contextId) THEN "no such frame"
    ELSE IF ~isTopLevelContext(contextId) THEN "invalid argument"
    ELSE "none"

\* checkContexts without the check of the empty list.
checkContextsNoEmpty(targets, params) ==
    IF ~params.given THEN "none"
    ELSE LET bad == {i \in DOMAIN params.ids :
                        contextError(targets, params.ids[i]) # "none"}
         IN  IF bad = {} THEN "none"
             ELSE contextError(targets, params.ids[Min(bad)])

\* The validation of params.contexts in addPreloadScript: the empty list is
\* an invalid argument, then the ids are checked in order.
checkContexts(targets, params) ==
    IF ~params.given THEN "none"
    ELSE IF Len(params.ids) = 0 THEN "invalid argument"
    ELSE LET bad == {i \in DOMAIN params.ids :
                        contextError(targets, params.ids[i]) # "none"}
         IN  IF bad = {} THEN "none"
             ELSE contextError(targets, params.ids[Min(bad)])

\* The targets addPreloadScript installs the script in.
resolveTargets(targets, params) ==
    IF ~params.given
    THEN {cdpTargetOf(c) : c \in getTopLevelContexts(targets)}
    ELSE {cdpTargetOf(params.ids[i]) : i \in DOMAIN params.ids}

\* No script command has run yet.
NoScriptCall ==
    [op |-> "none", pc |-> "idle", params |-> [given |-> FALSE, ids |-> <<>>],
     script |-> 0, error |-> "none", index |-> 0, swept |-> <<>>]

\* sweepDone that stops the sweep after the first CDP script.
sweepDoneAfterFirst(script, index) ==
    index > 1 \/ index > Len(script.cdpPreloadScripts)

\* PreloadScript.remove decides after each removal whether the sweep over
\* #cdpPreloadScripts is over.
sweepDone(script, index) == index > Len(script.cdpPreloadScripts)

\* CdpTarget.create: the target is constructed and #unblock is started but
\* not awaited; the preload script storage is told about the new target.
TargetCreated(t, networkEnabled) ==
    /\ cdpTargets[t].pc = "absent"
    /\ cdpTargets' = [cdpTargets EXCEPT ![t] = unblock(@, networkEnabled)]
    /\ preloadScripts' = onCdpTargetCreated(preloadScripts, t)
    /\ UNCHANGED <<nextScriptId, installing, scriptCall>>
    /\ UNCHANGED <<netVars, queueVars, wsVars, subVars, scriptVars, sessionVars, attachVars, channelVars, conversionVars, phaseVars>>

\* The command #unblock awaits on target t settles.
UnblockCommandSettled(t, outcome) ==
    /\ cdpTargets[t].pc = "awaiting"
    /\ cdpTargets' = [cdpTargets EXCEPT ![t] = unblockResumed(@, outcome)]
    /\ UNCHANGED <<preloadScripts, nextScriptId, installing, scriptCall>>
    /\ UNCHANGED <<netVars, queueVars, wsVars, subVars, scriptVars, sessionVars, attachVars, channelVars, conversionVars, phaseVars>>

\* ScriptProcessor.addPreloadScript up to its await: validation, then the
\* script is added to the storage, then initInTargets sends
\* Page.addScriptToEvaluateOnNewDocument to every resolved target.
AddPreloadScript(params) ==
    /\ scriptCall.pc # "awaiting"
    /\ nextScriptId <= MaxScripts
    /\ \E error \in {checkContexts(cdpTargets, params)} :
        IF error # "none"
        THEN /\ scriptCall' = [NoScriptCall EXCEPT
                                 !.op = "addPreloadScript", !.pc = "threw",
                                 !.params = params, !.error = error]
             /\ UNCHANGED <<preloadScripts, nextScriptId, installing>>
        ELSE \E targets \in {resolveTargets(cdpTargets, params)} :
             /\ preloadScripts' =
                    addScript(preloadScripts, nextScriptId, PreloadScript(params))
             /\ nextScriptId' = nextScriptId + 1
             /\ installing' = installing \cup {<<nextScriptId, t>> : t \in targets}
             /\ scriptCall' = [NoScriptCall EXCEPT
                                 !.op = "addPreloadScript",
                                 !.pc = IF targets = {} THEN "returned"
                                        ELSE "awaiting",
                                 !.params = params, !.script = nextScriptId]
    /\ UNCHANGED cdpTargets
    /\ UNCHANGED <<netVars, queueVars, wsVars, subVars, scriptVars, sessionVars, attachVars, channelVars, conversionVars, phaseVars>>

\* PreloadScript.initInTarget resumed: Page.addScriptToEvaluateOnNewDocument
\* of script s on target t settles.  Success records the CDP script under
\* the BiDi script; Promise.all of initInTargets, and with it
\* addPreloadScript, resolves with the last success and rejects with the
\* first failure.
AddScriptSettled(s, t, ok) ==
    /\ <<s, t>> \in installing
    /\ installing' = installing \ {<<s, t>>}
    /\ preloadScripts' =
         IF ok /\ s \in DOMAIN preloadScripts
         THEN [preloadScripts EXCEPT
                 ![s].cdpPreloadScripts = Append(@, t),
                 ![s].targetIds = @ \cup {t}]
         ELSE preloadScripts
    /\ scriptCall' =
         IF scriptCall.op = "addPreloadScript" /\ scriptCall.script = s
            /\ scriptCall.pc = "awaiting"
         THEN IF ~ok
              THEN [scriptCall EXCEPT !.pc = "threw", !.error = "cdp error"]
              ELSE IF \E u \in Targets : <<s, u>> \in installing'
                   THEN scriptCall
                   ELSE [scriptCall EXCEPT !.pc = "returned"]
         ELSE scriptCall
    /\ UNCHANGED <<cdpTargets, nextScriptId>>
    /\ UNCHANGED <<netVars, queueVars, wsVars, subVars, scriptVars, sessionVars, attachVars, channelVars, conversionVars, phaseVars>>

\* ScriptProcessor.removePreloadScript up to its await: an unknown id
\* throws; otherwise PreloadScript.remove starts its sweep, and with nothing
\* to sweep the script leaves the storage at once.
RemovePreloadScript(id) ==
    /\ scriptCall.pc # "awaiting"
    /\ \E call \in {[NoScriptCall EXCEPT !.op = "removePreloadScript",
                                         !.script = id]} :
        IF findScripts(preloadScripts, id) = {}
        THEN /\ scriptCall' = [call EXCEPT !.pc = "threw",
                                           !.error = "no such script"]
             /\ UNCHANGED preloadScripts
        ELSE IF sweepDone(preloadScripts[id], 1)
        THEN /\ scriptCall' = [call EXCEPT !.pc = "returned"]
             /\ preloadScripts' = removeScripts(preloadScripts, id)
        ELSE /\ scriptCall' =
                  [call EXCEPT !.pc = "awaiting", !.index = 1,
                     !.swept = <<preloadScripts[id].cdpPreloadScripts[1]>>]
             /\ UNCHANGED preloadScripts
    /\ UNCHANGED <<cdpTargets, nextScriptId, installing>>
    /\ UNCHANGED <<netVars, queueVars, wsVars, subVars, scriptVars, sessionVars, attachVars, channelVars, conversionVars, phaseVars>>

\* PreloadScript.remove resumed: the awaited
\* Page.removeScriptToEvaluateOnNewDocument settles.  A failure rejects
\* removePreloadScript; success goes on with the next recorded CDP script,
\* and after the last one the script leaves the storage.
RemoveScriptSettled(ok) ==
    /\ scriptCall.op = "removePreloadScript"
    /\ scriptCall.pc = "awaiting"
    /\ \E id \in {scriptCall.script} :
        IF ~ok
        THEN /\ scriptCall' = [scriptCall EXCEPT !.pc = "threw",
                                                 !.error = "cdp error"]
             /\ UNCHANGED preloadScripts
        ELSE IF sweepDone(preloadScripts[id], scriptCall.index + 1)
        THEN /\ scriptCall' = [scriptCall EXCEPT !.pc = "returned"]
             /\ preloadScripts' = removeScripts(preloadScripts, id)
        ELSE /\ scriptCall' =
                  [scriptCall EXCEPT
                     !.index = @ + 1,
                     !.swept = Append(@,
                         preloadScripts[id].cdpPreloadScripts[
                             scriptCall.index + 1])]
             /\ UNCHANGED preloadScripts
    /\ UNCHANGED <<cdpTargets, nextScriptId, installing>>
    /\ UNCHANGED <<netVars, queueVars, wsVars, subVars, scriptVars, sessionVars, attachVars, channelVars, conversionVars, phaseVars>>

InitTarget ==
    /\ cdpTargets = [t \in Targets |-> NoCdpTarget]
    /\ preloadScripts = <<>>
    /\ nextScriptId = 1
    /\ installing = {}
    /\ scriptCall = NoScriptCall

NextTarget ==
    \/ \E t \in Targets, networkEnabled \in BOOLEAN :
          TargetCreated(t, networkEnabled)
    \/ \E t \in Targets, outcome \in CdpOutcomes :
          UnblockCommandSettled(t, outcome)
    \/ \E params \in ContextsParams : AddPreloadScript(params)
    \/ \E s \in 1..MaxScripts, t \in Targets, ok \in BOOLEAN :
          AddScriptSettled(s, t, ok)
    \/ \E id \in 1..MaxScripts : RemovePreloadScript(id)
    \/ \E ok \in BOOLEAN : RemoveScriptSettled(ok)

\* The preload script commands alone: targets are created, and their
\* initialisation is left where it stands.
NextPreload ==
    \/ \E t \in Targets, networkEnabled \in BOOLEAN :
          TargetCreated(t, networkEnabled)
    \/ \E params \in ContextsParams : AddPreloadScript(params)
    \/ \E s \in 1..MaxScripts, t \in Targets, ok \in BOOLEAN :
          AddScriptSettled(s, t, ok)
    \/ \E id \in 1..MaxScripts : RemovePreloadScript(id)
    \/ \E ok \in BOOLEAN : RemoveScriptSettled(ok)

\* The commands the initialisation of a target issues, in order, when no
\* preload script is to be installed in it.
initCommands(target) ==
    (IF target.networkDomainActivated THEN <<"Network.enable">> ELSE <<>>)
    \o UnblockCommands

\* The stored preload scripts a target is associated with.
scriptsOfTarget(t) ==
    {s \in DOMAIN preloadScripts : t \in preloadScripts[s].targetIds}

\* C31: the unblocked latch of a CdpTarget fires only after all the steps of
\* its initialisation have completed, in order: Network (if enabled),
\* Runtime.enable, Page.enable, Page.setLifecycleEventsEnabled,
\* Target.setAutoAttach, the installation of the preload scripts of the
\* target, Runtime.runIfWaitingForDebugger.
C31_UnblockedAfterAllSteps ==
    \A t \in Targets :
        cdpTargets[t].pc = "unblocked"
        => /\ cdpTargets[t].sent = initCommands(cdpTargets[t])
           /\ \A s \in scriptsOfTarget(t) :
                  t \in Range(preloadScripts[s].cdpPreloadScripts)

\* C32: a close-error of a command of the initialisation is ignored (the
\* initialisation does not fail with it); any other error makes it fail.
C32_CloseErrorIsIgnored ==
    \A t \in Targets :
        /\ cdpTargets[t].error = "closeError" => cdpTargets[t].pc # "rejected"
        /\ cdpTargets[t].error = "otherError" => cdpTargets[t].pc = "rejected"

\* A step of addPreloadScript up to its await: it has stored a new script,
\* or it has thrown at the validation of params.contexts.
addPreloadScriptStep ==
    /\ scriptCall'.op = "addPreloadScript"
    /\ \/ nextScriptId' # nextScriptId
       \/ /\ scriptCall' # scriptCall
          /\ scriptCall'.pc = "threw"
          /\ scriptCall'.error \in {"invalid argument", "no such frame"}

\* C33: addPreloadScript installs the script in the targets of the given
\* context ids, which must be top-level, or of all top-level contexts if
\* contexts is omitted; an empty list, and a list (of known contexts) with a
\* context that is not top-level, fail with invalid argument.
C33_PreloadTargetsResolved ==
    [][addPreloadScriptStep =>
        LET params == scriptCall'.params
            ids == Range(params.ids)
            sentTo == {t \in Targets : <<scriptCall'.script, t>> \in installing'}
        IN  /\ ~params.given
                => /\ scriptCall'.error = "none"
                   /\ sentTo = getTopLevelContexts(cdpTargets)
            /\ (params.given /\ ids = {})
                => scriptCall'.error = "invalid argument"
            /\ (params.given /\ ids # {}
                /\ \A c \in ids : hasContext(cdpTargets, c))
                => IF \A c \in ids : isTopLevelContext(c)
                   THEN scriptCall'.error = "none" /\ sentTo = ids
                   ELSE /\ scriptCall'.error = "invalid argument"
                        /\ UNCHANGED <<preloadScripts, installing>>
    ]_vars

\* addPreloadScript with a list of known contexts, one of them a frame, has
\* thrown.
C33_Witness ==
    /\ scriptCall.op = "addPreloadScript"
    /\ scriptCall.params.ids = <<"top1", "child1">>
    /\ cdpTargets["top1"].pc # "absent"
    /\ scriptCall.pc = "threw"

\* C34: when removePreloadScript removes a script from the storage, it has
\* issued Page.removeScriptToEvaluateOnNewDocument for every CDP script
\* recorded under it, on the target it is installed in, in order.
C34_SweptBeforeRemoved ==
    [][\A s \in DOMAIN preloadScripts :
          s \notin DOMAIN preloadScripts'
          => /\ scriptCall'.op = "removePreloadScript"
             /\ scriptCall'.script = s
             /\ scriptCall'.swept = preloadScripts[s].cdpPreloadScripts
    ]_vars

\* A script installed in both targets has been removed.
C34_Witness ==
    /\ scriptCall.op = "removePreloadScript"
    /\ scriptCall.pc = "returned"
    /\ Len(scriptCall.swept) = 2

\* C35: a failed addPreloadScript leaves the storage as it was: its script
\* is not stored, and no target created later is associated with it.
C35_FailedAddLeavesStore ==
    (scriptCall.op = "addPreloadScript" /\ scriptCall.pc = "threw")
    => scriptCall.script \notin DOMAIN preloadScripts

(***************************************************************************)
(* The attachment of targets (browsingContextProcessor.ts):                *)
(* Target.attachedToTarget and Target.detachedFromTarget of the browser    *)
(* client, each handled by an asynchronous listener.                       *)
(***************************************************************************)
MaxTargetEvents == 5   \* Target.attachedToTarget and detachedFromTarget events handled

\* BrowsingContextProcessor._selfTargetId: the target of the mapper's tab.
selfTargetId == "self"

\* The targetInfo of the Target.attachedToTarget events.
TargetInfos ==
    {[targetId |-> t, type |-> type] :
        t \in Targets \cup {selfTargetId}, type \in {"page", "worker"}}

\* BrowsingContextProcessor._isValidTarget.
isValidTarget(targetInfo) ==
    /\ targetInfo.targetId # selfTargetId
    /\ targetInfo.type = "page"

\* Context.hasKnownContext.
hasKnownContext(known, contextId) == contextId \in known

\* _handleAttachedToTargetEvent up to its await: an invalid or an already
\* known target is ignored, otherwise TargetContext.create is started.
AttachedToTarget(targetInfo) ==
    /\ targetEvents < MaxTargetEvents
    /\ targetEvents' = targetEvents + 1
    /\ IF isValidTarget(targetInfo)
          /\ ~hasKnownContext(knownContexts, targetInfo.targetId)
       THEN creating' = [creating EXCEPT ![targetInfo.targetId] = @ + 1]
       ELSE UNCHANGED creating
    /\ UNCHANGED <<knownContexts, contextsCreated, contextCreatedEvents>>
    /\ UNCHANGED <<netVars, queueVars, wsVars, subVars, scriptVars, sessionVars, targetVars, channelVars, conversionVars, phaseVars>>

\* _handleAttachedToTargetEvent resumed: TargetContext.create has resolved
\* with a new context, which is added to the known contexts, and
\* browsingContext.contextCreated is sent.
TargetContextCreated(t) ==
    /\ creating[t] > 0
    /\ creating' = [creating EXCEPT ![t] = @ - 1]
    /\ contextsCreated' = [contextsCreated EXCEPT ![t] = @ + 1]
    /\ knownContexts' = knownContexts \cup {t}
    /\ contextCreatedEvents' = [contextCreatedEvents EXCEPT ![t] = @ + 1]
    /\ UNCHANGED targetEvents
    /\ UNCHANGED <<netVars, queueVars, wsVars, subVars, scriptVars, sessionVars, targetVars, channelVars, conversionVars, phaseVars>>

\* _handleDetachedFromTargetEvent: the context of a known target is removed
\* and browsingContext.contextDestroyed is sent; the attachment of the
\* target is over, and the next one starts with no context and no event.
DetachedFromTarget(t) ==
    /\ targetEvents < MaxTargetEvents
    /\ targetEvents' = targetEvents + 1
    /\ IF hasKnownContext(knownContexts, t)
       THEN /\ knownContexts' = knownContexts \ {t}
            /\ contextsCreated' = [contextsCreated EXCEPT ![t] = 0]
            /\ contextCreatedEvents' = [contextCreatedEvents EXCEPT ![t] = 0]
       ELSE UNCHANGED <<knownContexts, contextsCreated, contextCreatedEvents>>
    /\ UNCHANGED creating
    /\ UNCHANGED <<netVars, queueVars, wsVars, subVars, scriptVars, sessionVars, targetVars, channelVars, conversionVars, phaseVars>>

InitAttach ==
    /\ knownContexts = {}
    /\ creating = [t \in Targets |-> 0]
    /\ contextsCreated = [t \in Targets |-> 0]
    /\ contextCreatedEvents = [t \in Targets |-> 0]
    /\ targetEvents = 0

NextAttach ==
    \/ \E targetInfo \in TargetInfos : AttachedToTarget(targetInfo)
    \/ \E t \in Targets : TargetContextCreated(t)
    \/ \E t \in Targets : DetachedFromTarget(t)

\* C36: in one attachment of a target at most one browsing context is
\* created for it and at most one browsingContext.contextCreated is
\* emitted, also when Target.attachedToTarget arrives again while the first
\* one is being handled.
C36_OneContextPerAttachment ==
    \A t \in Targets :
        /\ contextsCreated[t] <= 1
        /\ contextCreatedEvents[t] <= 1

(***************************************************************************)
(* ChannelProxy: the in-page queue of a channel (#createHandle) and the    *)
(* host-side loop that polls it (#initChannelListener).  The browser and   *)
(* the mapper exchange CDP messages in order: cdpInbox holds the replies   *)
(* and events the browser has sent and the mapper has not handled yet.     *)
(***************************************************************************)
MaxMessages == 3   \* sendMessage calls of the page

\* The values the page sends through the channel.
MessageData == {"a", "b"}

\* The reply of the browser to Runtime.callFunctionOn(getMessage) in a realm
\* with the given in-page queue: an error once the execution context is
\* destroyed, the head of the queue if there is one (getMessage shifts it),
\* and otherwise no reply yet: getMessage waits for sendMessage.
getMessage(realmState, queue) ==
    IF realmState = "destroyed"
    THEN [reply |-> <<[type |-> "error"]>>, queue |-> queue, waiting |-> FALSE]
    ELSE IF Len(queue) > 0
    THEN [reply |-> <<[type |-> "result", message |-> Head(queue)]>>,
          queue |-> Tail(queue), waiting |-> FALSE]
    ELSE [reply |-> <<>>, queue |-> queue, waiting |-> TRUE]

\* A listener that goes on polling after a failed command.
channelListenerRetries(message) == "awaiting"

\* One turn of the for(;;) loop of #initChannelListener after its await:
\* a result is registered as a script.message event and getMessage is called
\* again; a failed command throws out of the loop.
channelListenerResumed(message) ==
    IF message.type = "error" THEN "ended" ELSE "awaiting"

\* ChannelProxy.init: the handles are created in the realm and the listener
\* is started, which issues its first getMessage call.
InitChannelListener ==
    /\ channelListener = "idle"
    /\ realm = "alive"
    /\ channelListener' = "awaiting"
    /\ callsIssued' = 1
    /\ \E answer \in {getMessage(realm, pageQueue)} :
        /\ cdpInbox' = cdpInbox \o answer.reply
        /\ pageQueue' = answer.queue
        /\ getMessageWaiting' = answer.waiting
    /\ UNCHANGED <<realm, scriptMessages, realmDestroyedSeen, messagesSent>>
    /\ UNCHANGED <<netVars, queueVars, wsVars, subVars, scriptVars, sessionVars, targetVars, attachVars, conversionVars, phaseVars>>

\* The page calls sendMessage of the channel: the message is queued, and a
\* waiting getMessage is resolved with the head of the queue.
PageSendMessage(data) ==
    /\ realm = "alive"
    /\ channelListener # "idle"
    /\ messagesSent < MaxMessages
    /\ messagesSent' = messagesSent + 1
    /\ \E queue \in {Append(pageQueue, data)} :
        IF getMessageWaiting
        THEN \E answer \in {getMessage(realm, queue)} :
                /\ cdpInbox' = cdpInbox \o answer.reply
                /\ pageQueue' = answer.queue
                /\ getMessageWaiting' = answer.waiting
        ELSE /\ pageQueue' = queue
             /\ UNCHANGED <<cdpInbox, getMessageWaiting>>
    /\ UNCHANGED <<realm, channelListener, callsIssued, scriptMessages, realmDestroyedSeen>>
    /\ UNCHANGED <<netVars, queueVars, wsVars, subVars, scriptVars, sessionVars, targetVars, attachVars, conversionVars, phaseVars>>

\* The browser destroys the execution context of the realm: it sends
\* Runtime.executionContextDestroyed and fails the getMessage call that is
\* waiting, in either order; the in-page queue is gone.
RealmDestroyed ==
    /\ realm = "alive"
    /\ realm' = "destroyed"
    /\ pageQueue' = <<>>
    /\ getMessageWaiting' = FALSE
    /\ \E failed \in {IF getMessageWaiting THEN <<[type |-> "error"]>> ELSE <<>>},
          event \in {<<[type |-> "executionContextDestroyed"]>>} :
          \/ cdpInbox' = cdpInbox \o failed \o event
          \/ cdpInbox' = cdpInbox \o event \o failed
    /\ UNCHANGED <<channelListener, callsIssued, scriptMessages, realmDestroyedSeen, messagesSent>>
    /\ UNCHANGED <<netVars, queueVars, wsVars, subVars, scriptVars, sessionVars, targetVars, attachVars, conversionVars, phaseVars>>

\* The mapper handles the next CDP message: the destruction of the realm is
\* noted; a reply resumes the listener.
CdpMessageReceived ==
    /\ Len(cdpInbox) > 0
    /\ \E message \in {Head(cdpInbox)} :
        IF message.type = "executionContextDestroyed"
        THEN /\ realmDestroyedSeen' = TRUE
             /\ cdpInbox' = Tail(cdpInbox)
             /\ UNCHANGED <<channelListener, callsIssued, scriptMessages,
                            pageQueue, getMessageWaiting>>
        ELSE /\ channelListener' = channelListenerResumed(message)
             /\ IF channelListener' = "awaiting"
                THEN /\ scriptMessages' =
                          IF message.type = "result"
                          THEN Append(scriptMessages, message.message)
                          ELSE scriptMessages
                     /\ callsIssued' = callsIssued + 1
                     /\ \E answer \in {getMessage(realm, pageQueue)} :
                            /\ cdpInbox' = Tail(cdpInbox) \o answer.reply
                            /\ pageQueue' = answer.queue
                            /\ getMessageWaiting' = answer.waiting
                ELSE /\ cdpInbox' = Tail(cdpInbox)
                     /\ UNCHANGED <<callsIssued, scriptMessages, pageQueue,
                                    getMessageWaiting>>
             /\ UNCHANGED realmDestroyedSeen
    /\ UNCHANGED <<realm, messagesSent>>
    /\ UNCHANGED <<netVars, queueVars, wsVars, subVars, scriptVars, sessionVars, targetVars, attachVars, conversionVars, phaseVars>>

InitChannel ==
    /\ realm = "alive"
    /\ pageQueue = <<>>
    /\ getMessageWaiting = FALSE
    /\ cdpInbox = <<>>
    /\ channelListener = "idle"
    /\ callsIssued = 0
    /\ scriptMessages = <<>>
    /\ realmDestroyedSeen = FALSE
    /\ messagesSent = 0

NextChannel ==
    \/ InitChannelListener
    \/ \E data \in MessageData : PageSendMessage(data)
    \/ RealmDestroyed
    \/ CdpMessageReceived

\* C37: the poll loop of a channel terminates on the destruction of its
\* realm: a listener waiting on a destroyed realm ends, and once the mapper
\* has been told of the destruction the loop issues no further getMessage
\* call and no further script.message event is registered.
C37_PollLoopTerminates ==
    /\ (realm = "destroyed" /\ channelListener = "awaiting")
           ~> (channelListener = "ended")
    /\ [][realmDestroyedSeen
            => /\ callsIssued' = callsIssued
               /\ scriptMessages' = scriptMessages]_vars

\* The listener has polled messages and ended after the destruction of the
\* realm.
C37_Witness ==
    /\ realmDestroyedSeen
    /\ channelListener = "ended"
    /\ Len(scriptMessages) > 0

(***************************************************************************)
(* Conversions: the override headers of an interception command            *)
(* (NetworkRequest.#getOverrideHeader) and the cookies of the storage      *)
(* module (NetworkUtils and StorageProcessor).  Each is a function of its  *)
(* arguments; its specification draws the arguments in the initial state   *)
(* and applies the function.                                               *)
(***************************************************************************)
MaxHeaders == 2   \* headers of a header list

\* Header names, and the names that are equal to 'cookie' for
\* localeCompare with sensitivity 'base'.
HeaderNames == {"cookie", "Cookie", "accept"}

isCookieName(name) == name \in {"cookie", "Cookie"}

\* A Network.Header; the value of a header is a list of strings.
Header(name, value) == [name |-> name, value |-> value]

isCookieHeader(header) == isCookieName(header.name)

isOtherHeader(header) == ~isCookieName(header.name)

\* The header lists of the arguments.
HeaderLists ==
    UNION {[1..n -> {Header(name, <<"v">>) : name \in HeaderNames}] :
              n \in 0..MaxHeaders}

\* An optional argument: omitted, or given with a list.
Optional(lists) ==
    {[given |-> FALSE, list |-> <<>>]}
    \cup {[given |-> TRUE, list |-> list] : list \in lists}

\* The cookies of an override: name=value strings.
CookieLists == {<<>>, <<"a=1">>, <<"a=1", "b=2">>}

\* networkHeaderFromCookieHeaders: no header for omitted cookies, otherwise
\* the Cookie header made of the given cookies.
networkHeaderFromCookieHeaders(cookies) ==
    IF cookies.given
    THEN [given |-> TRUE, header |-> Header("Cookie", cookies.list)]
    ELSE [given |-> FALSE, header |-> Header("Cookie", <<>>)]

\* NetworkRequest.#getOverrideHeader.  The result of
\* overrideHeaders.filter(...) is dropped (filter returns a new array), so
\* the cookie header is pushed onto the unfiltered list.
getOverrideHeader(headers, cookies, requestHeaders) ==
    IF ~headers.given /\ ~cookies.given THEN <<>>
    ELSE LET cookieHeader == networkHeaderFromCookieHeaders(cookies)
             overrideHeaders ==
                 IF cookieHeader.given /\ ~headers.given
                 THEN requestHeaders ELSE headers.list
         IN  IF cookieHeader.given
             THEN Append(overrideHeaders, cookieHeader.header)
             ELSE overrideHeaders

\* An interception command computes the override headers of its arguments.
GetOverrideHeader ==
    /\ overrideCall.pc = "arguments"
    /\ overrideCall' =
         [overrideCall EXCEPT
            !.pc = "returned",
            !.result = getOverrideHeader(overrideCall.headers,
                           overrideCall.cookies, overrideCall.requestHeaders)]
    /\ UNCHANGED cookieCall
    /\ UNCHANGED <<netVars, queueVars, wsVars, subVars, scriptVars, sessionVars, targetVars, attachVars, channelVars, phaseVars>>

InitOverrideIdle ==
    overrideCall = [pc |-> "returned",
                    headers |-> [given |-> FALSE, list |-> <<>>],
                    cookies |-> [given |-> FALSE, list |-> <<>>],
                    requestHeaders |-> <<>>, result |-> <<>>]

InitOverride ==
    \E headers \in Optional(HeaderLists), cookies \in Optional(CookieLists),
       requestHeaders \in HeaderLists :
        overrideCall = [pc |-> "arguments", headers |-> headers,
                        cookies |-> cookies,
                        requestHeaders |-> requestHeaders, result |-> <<>>]

NextOverride == GetOverrideHeader

\* C38: with cookies supplied, the override headers are the supplied
\* headers, or the headers of the request if none are supplied, with their
\* cookie headers (name compared without case) taken out and the
\* synthesized cookie header put in: exactly one cookie header.
C38_OneCookieHeader ==
    (overrideCall.pc = "returned" /\ overrideCall.cookies.given)
    => LET base == IF overrideCall.headers.given
                   THEN overrideCall.headers.list
                   ELSE overrideCall.requestHeaders
       IN  /\ SelectSeq(overrideCall.result, isCookieHeader)
                = <<Header("Cookie", overrideCall.cookies.list)>>
           /\ SelectSeq(overrideCall.result, isOtherHeader)
                = SelectSeq(base, isOtherHeader)

\* The sameSite values of a CDP cookie (absent, known, unknown) and of a
\* BiDi cookie.
CdpSameSites == {"absent", "Strict", "Lax", "None", "Extended"}

BidiSameSites == {"absent", "strict", "lax", "none", "bogus"}

\* The two implementations of the cookie conversions.
CookieConversions == {"NetworkUtils", "StorageProcessor"}

\* NetworkUtils sameSiteCdpToBiDi.
sameSiteCdpToBiDi(sameSite) ==
    CASE sameSite = "Strict" -> "strict"
      [] sameSite = "None" -> "none"
      [] sameSite = "Lax" -> "lax"
      [] OTHER -> "lax"

\* StorageProcessor.#sameSiteCdpToBiDi: 'None' and the default share a
\* branch.
storageSameSiteCdpToBiDi(sameSite) ==
    CASE sameSite = "Strict" -> "strict"
      [] sameSite = "Lax" -> "lax"
      [] OTHER -> "none"

\* sameSiteBiDiToCdp of both implementations: an unknown value throws
\* InvalidArgumentException.
sameSiteBiDiToCdp(sameSite) ==
    CASE sameSite = "strict" -> [error |-> "none", sameSite |-> "Strict"]
      [] sameSite = "lax" -> [error |-> "none", sameSite |-> "Lax"]
      [] sameSite = "none" -> [error |-> "none", sameSite |-> "None"]
      [] OTHER -> [error |-> "invalid argument", sameSite |-> "absent"]

\* cdpToBiDiCookie (NetworkUtils) and StorageProcessor.#cdpToBiDiCookie: a
\* cookie without sameSite reads as none; expiry is kept if not negative
\* (-1 stands for no expiry in the result).
cdpToBiDiCookie(conversion, cookie) ==
    [error |-> "none",
     httpOnly |-> cookie.httpOnly,
     secure |-> cookie.secure,
     sameSite |-> IF cookie.sameSite = "absent" THEN "none"
                  ELSE IF conversion = "NetworkUtils"
                  THEN sameSiteCdpToBiDi(cookie.sameSite)
                  ELSE storageSameSiteCdpToBiDi(cookie.sameSite),
     expiry |-> IF cookie.expires >= 0 THEN cookie.expires ELSE -1]

\* bidiToCdpCookie (NetworkUtils) and the cookie of StorageProcessor.setCookie:
\* missing secure and httpOnly are false, sameSite is converted if given.
\* In setCookie the conversion runs inside the try block of
\* Storage.setCookies, whose catch rethrows every error as unable to set
\* cookie.
bidiToCdpCookie(conversion, cookie) ==
    LET converted == IF cookie.sameSite = "absent"
                     THEN [error |-> "none", sameSite |-> "absent"]
                     ELSE sameSiteBiDiToCdp(cookie.sameSite)
    IN  [error |-> IF converted.error # "none" /\ conversion = "StorageProcessor"
                   THEN "unable to set cookie" ELSE converted.error,
         httpOnly |-> cookie.httpOnly = "true",
         secure |-> cookie.secure = "true",
         sameSite |-> converted.sameSite,
         expiry |-> -1]

\* The CDP cookies read and the BiDi cookies written.
CdpCookies ==
    [sameSite : CdpSameSites, expires : {-1, 0, 5}, httpOnly : BOOLEAN,
     secure : BOOLEAN]

BidiCookies ==
    [sameSite : BidiSameSites, httpOnly : {"absent", "true", "false"},
     secure : {"absent", "true", "false"}]

\* A cookie is read (storage.getCookies, network events) or written
\* (storage.setCookie).
ConvertCookie ==
    /\ cookieCall.pc = "arguments"
    /\ cookieCall' =
         [cookieCall EXCEPT
            !.pc = "returned",
            !.result = IF cookieCall.op = "read"
                       THEN cdpToBiDiCookie(cookieCall.conversion, cookieCall.cdp)
                       ELSE bidiToCdpCookie(cookieCall.conversion, cookieCall.bidi)]
    /\ UNCHANGED overrideCall
    /\ UNCHANGED <<netVars, queueVars, wsVars, subVars, scriptVars, sessionVars, targetVars, attachVars, channelVars, phaseVars>>

NoCookieResult ==
    [error |-> "none", httpOnly |-> FALSE, secure |-> FALSE,
     sameSite |-> "absent", expiry |-> -1]

InitCookieIdle ==
    cookieCall = [pc |-> "returned", op |-> "read",
                  conversion |-> "NetworkUtils",
                  cdp |-> [sameSite |-> "absent", expires |-> -1,
                           httpOnly |-> FALSE, secure |-> FALSE],
                  bidi |-> [sameSite |-> "absent", httpOnly |-> "absent",
                            secure |-> "absent"],
                  result |-> [NoCookieResult EXCEPT !.sameSite = "none"]]

InitCookie ==
    \E op \in {"read", "write"}, conversion \in CookieConversions,
       cdp \in CdpCookies, bidi \in BidiCookies :
        /\ op = "read" => bidi = [sameSite |-> "absent", httpOnly |-> "absent",
                                  secure |-> "absent"]
        /\ op = "write" => cdp = [sameSite |-> "absent", expires |-> -1,
                                  httpOnly |-> FALSE, secure |-> FALSE]
        /\ cookieCall = [pc |-> "arguments", op |-> op,
                         conversion |-> conversion, cdp |-> cdp, bidi |-> bidi,
                         result |-> NoCookieResult]

InitConversions == InitOverrideIdle /\ InitCookieIdle

NextCookie == ConvertCookie

\* C39: reading a cookie maps the CDP sameSite values Strict, Lax and None
\* to the same BiDi values and any unknown value to lax; writing a cookie
\* maps the BiDi values to the same CDP values and fails with invalid
\* argument for an unknown value.
C39_SameSiteMapping ==
    cookieCall.pc = "returned"
    => /\ cookieCall.op = "read"
          => /\ cookieCall.cdp.sameSite = "Strict"
                    => cookieCall.result.sameSite = "strict"
             /\ cookieCall.cdp.sameSite = "Lax"
                    => cookieCall.result.sameSite = "lax"
             /\ cookieCall.cdp.sameSite = "None"
                    => cookieCall.result.sameSite = "none"
             /\ cookieCall.cdp.sameSite = "Extended"
                    => cookieCall.result.sameSite = "lax"
       /\ cookieCall.op = "write"
          => /\ cookieCall.bidi.sameSite = "strict"
                    => cookieCall.result.sameSite = "Strict"
             /\ cookieCall.bidi.sameSite = "lax"
                    => cookieCall.result.sameSite = "Lax"
             /\ cookieCall.bidi.sameSite = "none"
                    => cookieCall.result.sameSite = "None"
             /\ cookieCall.bidi.sameSite = "bogus"
                    => cookieCall.result.error = "invalid argument"

(***************************************************************************)
(* The phase signal of a NetworkRequest: waitNextPhase, a Deferred that    *)
(* #emitEvent resolves and replaces (#phaseChanged), and the callers that  *)
(* read the field and await what they read.  Deferreds are numbered in     *)
(* the order of their creation.                                            *)
(***************************************************************************)
MaxPhases == 5   \* Deferreds created for waitNextPhase

MaxWaiters == 2   \* callers that read waitNextPhase

\* A caller that has not read waitNextPhase yet.
NoWaiter == [signal |-> 0, released |-> FALSE]

\* #phaseChanged that resolves the Deferred and keeps it.
phaseChangedNoReplace(s) ==
    [current |-> s.current,
     resolved |-> s.resolved \cup {s.current},
     waiters |-> [w \in DOMAIN s.waiters |->
                    IF s.waiters[w].signal = s.current
                    THEN [s.waiters[w] EXCEPT !.released = TRUE]
                    ELSE s.waiters[w]]]

\* #phaseChanged on s = [current, resolved, waiters]: the current Deferred
\* is resolved, which releases the callers awaiting it, and a new Deferred
\* takes its place.
phaseChanged(s) ==
    [current |-> s.current + 1,
     resolved |-> s.resolved \cup {s.current},
     waiters |-> [w \in DOMAIN s.waiters |->
                    IF s.waiters[w].signal = s.current
                    THEN [s.waiters[w] EXCEPT !.released = TRUE]
                    ELSE s.waiters[w]]]

\* new NetworkRequest(...): the field initialiser creates the first Deferred.
\* The URL of the request is the one of its request payload.
PhaseRequestCreated(urlKind) ==
    /\ waitNextPhase = 0
    /\ waitNextPhase' = 1
    /\ phaseRequest' = [NewRequest(0, urlKind) EXCEPT !.reqInfo = TRUE]
    /\ UNCHANGED <<resolvedPhases, phaseWaiters, phaseEvents>>
    /\ UNCHANGED <<netVars, queueVars, wsVars, subVars, scriptVars, sessionVars, targetVars, attachVars, channelVars, conversionVars>>

\* #emitEvent: an ignored event and a repeated one return early; otherwise
\* #phaseChanged runs and the event is registered.
PhaseEmitEvent(event) ==
    /\ waitNextPhase > 0
    /\ waitNextPhase < MaxPhases
    /\ \E n \in {emitEvent([req |-> phaseRequest, stored |-> TRUE, log |-> <<>>],
                           event)} :
        /\ phaseRequest' = n.req
        /\ phaseEvents' = phaseEvents \o [i \in DOMAIN n.log |-> n.log[i][2]]
        /\ \E s \in {IF Len(n.log) > 0
                     THEN phaseChanged([current |-> waitNextPhase,
                                        resolved |-> resolvedPhases,
                                        waiters |-> phaseWaiters])
                     ELSE [current |-> waitNextPhase,
                           resolved |-> resolvedPhases,
                           waiters |-> phaseWaiters]} :
            /\ waitNextPhase' = s.current
            /\ resolvedPhases' = s.resolved
            /\ phaseWaiters' = s.waiters
    /\ UNCHANGED <<netVars, queueVars, wsVars, subVars, scriptVars, sessionVars, targetVars, attachVars, channelVars, conversionVars>>

\* A caller reads this.waitNextPhase and awaits it (continueResponse with
\* credentials): it goes on at once if the Deferred it read is resolved.
ObtainSignal(w) ==
    /\ waitNextPhase > 0
    /\ phaseWaiters[w].signal = 0
    /\ phaseWaiters' =
         [phaseWaiters EXCEPT
            ![w] = [signal |-> waitNextPhase,
                    released |-> waitNextPhase \in resolvedPhases]]
    /\ UNCHANGED <<phaseRequest, waitNextPhase, resolvedPhases, phaseEvents>>
    /\ UNCHANGED <<netVars, queueVars, wsVars, subVars, scriptVars, sessionVars, targetVars, attachVars, channelVars, conversionVars>>

InitPhase ==
    /\ phaseRequest = NewRequest(0, "plain")
    /\ waitNextPhase = 0
    /\ resolvedPhases = {}
    /\ phaseWaiters = [w \in 1..MaxWaiters |-> NoWaiter]
    /\ phaseEvents = <<>>

NextPhase ==
    \/ \E urlKind \in UrlKinds : PhaseRequestCreated(urlKind)
    \/ \E event \in NetworkEvents : PhaseEmitEvent(event)
    \/ \E w \in 1..MaxWaiters : ObtainSignal(w)

\* C40: every emission of an event resolves waitNextPhase and replaces it
\* by a new unresolved Deferred, and nothing else does: the callers that
\* read the signal before the emission are released by it, and a caller
\* that reads it afterwards holds an unresolved signal and waits.
C40_SignalResolvedAndReplaced ==
    [][/\ phaseEvents' # phaseEvents
          => /\ waitNextPhase \in resolvedPhases'
             /\ waitNextPhase' \notin resolvedPhases' \cup {waitNextPhase}
             /\ \A w \in 1..MaxWaiters :
                    phaseWaiters[w].signal = waitNextPhase
                    => phaseWaiters'[w].released
       /\ (phaseEvents' = phaseEvents /\ waitNextPhase > 0)
          => /\ waitNextPhase' = waitNextPhase
             /\ resolvedPhases' = resolvedPhases
             /\ \A w \in 1..MaxWaiters :
                    phaseWaiters'[w].released = phaseWaiters[w].released
       /\ \A w \in 1..MaxWaiters :
              (phaseWaiters[w].signal = 0 /\ phaseWaiters'[w].signal # 0)
              => /\ phaseWaiters'[w].signal = waitNextPhase
                 /\ ~phaseWaiters'[w].released
    ]_vars

\* One caller read the signal before an emission and was released by it;
\* another read it after that emission and waits.
C40_Witness ==
    \E v, w \in 1..MaxWaiters :
        /\ phaseWaiters[v].signal > 0
        /\ phaseWaiters[v].released
        /\ phaseWaiters[w].signal > phaseWaiters[v].signal
        /\ ~phaseWaiters[w].released
        /\ Len(phaseEvents) > 0

(***************************************************************************)
(* The specifications: each subsystem runs from the initial state of the   *)
(* whole model.                                                            *)
(***************************************************************************)
Init == InitNet /\ InitQueue /\ InitWs /\ InitSub /\ InitScript /\ InitSession /\ InitTarget /\ InitAttach /\ InitChannel /\ InitConversions /\ InitPhase

SpecNet == Init /\ [][NextNet]_vars

FetchInit == InitFetch /\ InitQueue /\ InitWs /\ InitSub /\ InitScript /\ InitSession /\ InitTarget /\ InitAttach /\ InitChannel /\ InitConversions /\ InitPhase
SpecFetch == FetchInit /\ [][NextFetch]_vars
SpecQueue == Init /\ [][NextQueue]_vars

\* The queue's processing loop goes on as long as the head slot has settled.
SpecQueueFair == SpecQueue /\ WF_vars(ProcessHead) /\ WF_vars(SkipHead)
SpecWs == Init /\ [][NextWs]_vars
SpecSub == Init /\ [][NextSub]_vars
SpecCtx == Init /\ [][NextCtx]_vars

SharedIdInit == InitNet /\ InitQueue /\ InitWs /\ InitSub /\ InitSharedId /\ InitSession /\ InitTarget /\ InitAttach /\ InitChannel /\ InitConversions /\ InitPhase
SpecSharedId == SharedIdInit /\ [][NextSharedId]_vars
SpecSession == Init /\ [][NextSession]_vars
SpecTarget == Init /\ [][NextTarget]_vars
SpecPreload == Init /\ [][NextPreload]_vars
SpecAttach == Init /\ [][NextAttach]_vars
SpecChannel == Init /\ [][NextChannel]_vars

\* The mapper handles every CDP message it has received.
SpecChannelFair == SpecChannel /\ WF_vars(CdpMessageReceived)

OverrideInit == InitNet /\ InitQueue /\ InitWs /\ InitSub /\ InitScript /\ InitSession /\ InitTarget /\ InitAttach /\ InitChannel /\ InitOverride /\ InitCookieIdle /\ InitPhase
SpecOverride == OverrideInit /\ [][NextOverride]_vars

CookieInit == InitNet /\ InitQueue /\ InitWs /\ InitSub /\ InitScript /\ InitSession /\ InitTarget /\ InitAttach /\ InitChannel /\ InitOverrideIdle /\ InitCookie /\ InitPhase
SpecCookie == CookieInit /\ [][NextCookie]_vars
SpecPhase == Init /\ [][NextPhase]_vars
====
